---- MODULE Spec2Model ----
(***************************************************************************)
(* Model of the DORA metrics collector of agile-metrics-action             *)
(* (src/src/metrics-collector.js): the deployment source resolver, the     *)
(* deploy frequency calculator and the cycle time calculator, driven by    *)
(* the answers of the GitHub client.                                       *)
(*                                                                         *)
(* Conventions.  A JavaScript value that may be null/undefined is Null     *)
(* (the empty tuple) or Some(v) (the one-element tuple <<v>>).  Instants   *)
(* are whole hours since an arbitrary origin.  A number produced by        *)
(* toFixed(2) is kept as an integer count of hundredths.                   *)
(***************************************************************************)
EXTENDS Integers, Sequences, FiniteSets, TLC

VARIABLES
  options,      \* this.options: includeMergeCommits, enabledMetrics
  pc,           \* where the running method stands
  clientCalls,  \* the GitHub client calls made so far, in order
  seen,         \* what determineDataSource was answered, as far as it reads
                \* the answers
  asked,        \* what a direct call of a calculator was answered
  dataSource,   \* collectMetrics: source
  latestDeployment,    \* collectMetrics: latest; calculateCycleTime: its argument
  previousDeployment,  \* collectMetrics: previous; calculateCycleTime: its argument
  frequency,    \* the object calculateDeployFrequency returned
  cycle,        \* a direct calculateCycleTime call: result, commit set, calls
  metricsData,  \* collectMetrics: metricsData
  result        \* the object collectMetrics returned

vars == <<options, pc, clientCalls, seen, asked, dataSource, latestDeployment,
          previousDeployment, frequency, cycle, metricsData, result>>

\* ------------------------------------------------------------------ bounds
MaxTick == 3        \* instants are 0, 12, .., 12 * MaxTick hours
MaxLen == 3         \* most releases / tags a repository holds
MaxCommits == 2     \* most commits a comparison returns

\* ------------------------------------------------------------ option values
Null == << >>
Some(v) == <<v>>
Get(o) == o[1]
Truthy(o) == o # Null

Times == {12 * k : k \in 0..MaxTick}
DateOpt == {Null} \cup {Some(t) : t \in Times}

\* Names of the tags of a repository, oldest first, and the commit each tag
\* points at.
TagNames == <<"v1", "v2", "v3", "v4", "v5">>
TagShas == <<"sha1", "sha2", "sha3", "sha4", "sha5">>
CommitShas == <<"commit1", "commit2", "commit3", "commit4">>

RECURSIVE IndexOf(_, _, _)
IndexOf(seq, x, i) ==
  IF i > Len(seq) THEN 0 ELSE IF seq[i] = x THEN i ELSE IndexOf(seq, x, i + 1)

ShaOfTag(name) == TagShas[IndexOf(TagNames, name, 1)]

\* ------------------------------------------------------------ utils.js
\* (later - earlier) in days, as the exact fraction <<numerator, denominator>>
daysBetween(later, earlier) == <<later - earlier, 24>>

\* (later - earlier) in hours
hoursBetween(later, earlier) == later - earlier

\* Number((num / den).toFixed(2)), den > 0, in hundredths: the nearest
\* hundredth, a tie going away from zero.
ToFixed2(num, den) ==
  IF num >= 0 THEN (200 * num + den) \div (2 * den)
  ELSE 0 - ((200 * (0 - num) + den) \div (2 * den))

\* ------------------------------------------------------ collaborator answers
\* What one call of a GitHub client method gives back: a value, or an
\* exception (the collector's try/catch blocks are written for that case).
Ok(v) == [threw |-> FALSE, value |-> v]
Threw == [threw |-> TRUE, value |-> Null]
Unasked == Ok(Null)

Call(op, args) == [op |-> op, args |-> args]
Asks(calls, op) == \E i \in 1..Len(calls) : calls[i].op = op
CountCalls(calls, op) == Cardinality({i \in 1..Len(calls) : calls[i].op = op})

\* listReleases: non-draft releases, newest first.  The release at position i
\* of a list of n carries the tag TagNames[n - i + 1]; the releases of the
\* odd tags (v1, v3, ..) have a title of their own, the others have none.
Release(n, i, t) ==
  [name |-> IF (n - i + 1) % 2 = 1 THEN Some("release") ELSE Null,
   tag_name |-> TagNames[n - i + 1],
   created_at |-> t]

NewestFirst(ts) == \A i \in 1..(Len(ts) - 1) : ts[i] >= ts[i + 1]

ReleaseLists ==
  {[i \in 1..Len(ts) |-> Release(Len(ts), i, ts[i])] :
     ts \in {s \in UNION {[1..n -> Times] : n \in 0..MaxLen} : NewestFirst(s)}}

\* listTags: the tag names, newest first by the upstream ordering.
TagLists == {[i \in 1..n |-> [name |-> TagNames[n - i + 1]]] : n \in 0..MaxLen}

ListReleasesAnswers == {Ok(rs) : rs \in ReleaseLists} \cup {Threw}
ListTagsAnswers == {Ok(ts) : ts \in TagLists} \cup {Threw}

\* resolveTag(name): null, or {name, sha, created_at} where sha or created_at
\* may be missing.
Resolved(name, sha, created_at) ==
  [name |-> Some(name), tag |-> Null, sha |-> sha, created_at |-> created_at]

ResolveTagAnswers(name) ==
  {Ok(Null), Threw} \cup
  {Ok(Some(Resolved(name, sha, d))) : sha \in {Null, Some(ShaOfTag(name))}, d \in DateOpt}

\* ------------------------------------------------- determineDataSource
\* x?.f of an optional record
Field(o, f) == IF o = Null THEN Null ELSE Get(o)[f]

\* a || b
OrElse(a, b) == IF Truthy(a) THEN a ELSE b

ReleaseDeployment(r) ==
  [name |-> OrElse(r.name, Some(r.tag_name)),
   tag |-> Some(r.tag_name),
   sha |-> Null,
   created_at |-> Some(r.created_at)]

LatestRelease(releases) == ReleaseDeployment(releases[1])

PreviousRelease(releases) ==
  IF Len(releases) >= 2 THEN Some(ReleaseDeployment(releases[2])) ELSE Null

WithSha(deployment, resolved) == [deployment EXCEPT !.sha = Field(resolved, "sha")]

Failure(message, calls) ==
  [threw |-> TRUE, message |-> message, calls |-> calls,
   source |-> Null, latest |-> Null, previous |-> Null]

DataSource(source, latest, previous, calls) ==
  [threw |-> FALSE, message |-> Null, calls |-> calls,
   source |-> Some(source), latest |-> latest, previous |-> previous]

\* a resolver that wants two releases before it uses them
UseReleasesWhenTwo(releases) == Len(releases) >= 2

UseReleases(releases) == Len(releases) >= 1

\* The run of determineDataSource on the answers rel (listReleases), tags
\* (listTags), first and second (the resolveTag calls, in call order): what it
\* returns or throws, and the calls it made.
determineDataSource(rel, tags, first, second) ==
  LET c1 == <<Call("listReleases", <<>>)>> IN
  IF rel.threw THEN Failure(Some("API error"), c1)
  ELSE IF UseReleases(rel.value) THEN
    LET releases == rel.value
        latest == LatestRelease(releases)
        previous == PreviousRelease(releases)
        c2 == Append(c1, Call("resolveTag", <<latest.tag>>))
    IN IF first.threw THEN Failure(Some("API error"), c2)
       ELSE IF previous = Null
       THEN DataSource("release", Some(WithSha(latest, first.value)), Null, c2)
       ELSE LET c3 == Append(c2, Call("resolveTag", <<Get(previous).tag>>)) IN
            IF second.threw THEN Failure(Some("API error"), c3)
            ELSE DataSource("release", Some(WithSha(latest, first.value)),
                            Some(WithSha(Get(previous), second.value)), c3)
  ELSE
    LET c2 == Append(c1, Call("listTags", <<>>)) IN
    IF tags.threw THEN Failure(Some("API error"), c2)
    ELSE IF Len(tags.value) = 0 THEN Failure(Some("No releases or tags found"), c2)
    ELSE
      LET c3 == Append(c2, Call("resolveTag", <<Some(tags.value[1].name)>>)) IN
      IF first.threw THEN Failure(Some("API error"), c3)
      ELSE IF Len(tags.value) < 2
      THEN DataSource("tag", first.value, Null, c3)
      ELSE LET c4 == Append(c3, Call("resolveTag", <<Some(tags.value[2].name)>>)) IN
           IF second.threw THEN Failure(Some("API error"), c4)
           ELSE DataSource("tag", first.value, second.value, c4)

\* The n-th call of `op` in a call sequence (n >= 1), Null when there is none.
RECURSIVE NthCall(_, _, _)
NthCall(calls, op, n) ==
  IF calls = <<>> THEN Null
  ELSE IF Head(calls).op = op
       THEN IF n = 1 THEN Some(Head(calls)) ELSE NthCall(Tail(calls), op, n - 1)
       ELSE NthCall(Tail(calls), op, n)

\* The answers a resolveTag call may get, when the run so far makes that call.
ResolveAnswersFor(calls, n) ==
  IF NthCall(calls, "resolveTag", n) = Null THEN {Unasked}
  ELSE ResolveTagAnswers(Get(Get(NthCall(calls, "resolveTag", n)).args[1]))

ListTagsAnswersFor(calls) ==
  IF Asks(calls, "listTags") THEN ListTagsAnswers ELSE {Unasked}

\* ------------------------------------------- calculateDeployFrequency
Frequency(deployCount, deploysPerWeek, calls) ==
  [deployCount |-> deployCount, deploysPerWeek |-> deploysPerWeek, calls |-> calls]

\* a catch block that reports a rate of zero
FrequencyFailedAsZero(calls) == Frequency(0, Some(0), calls)

\* the catch block of calculateDeployFrequency
FrequencyFailed(calls) == Frequency(0, Null, calls)

\* count / days: the span is not turned into weeks
PerDay(count, days) ==
  IF days[1] > 0 THEN Some(ToFixed2(count * days[2], days[1])) ELSE Null

\* count / (days / 7), kept to two decimals, when the span is positive
PerWeek(count, days) ==
  IF days[1] > 0 THEN Some(ToFixed2(count * days[2] * 7, days[1])) ELSE Null

\* The run of calculateDeployFrequency on the answers rel (listReleases), tags
\* (listTags), oldestAns and newestAns (resolveTag of the last and of the
\* first tag, in call order).
calculateDeployFrequency(rel, tags, oldestAns, newestAns) ==
  LET c1 == <<Call("listReleases", <<>>)>> IN
  IF rel.threw THEN FrequencyFailed(c1)
  ELSE IF Len(rel.value) = 0 THEN
    LET c2 == Append(c1, Call("listTags", <<>>)) IN
    IF tags.threw THEN FrequencyFailed(c2)
    ELSE IF Len(tags.value) = 0 THEN Frequency(0, Null, c2)
    ELSE IF Len(tags.value) = 1 THEN Frequency(1, Null, c2)
    ELSE
      LET n == Len(tags.value)
          oldest == tags.value[n]
          newest == tags.value[1]
          c3 == Append(c2, Call("resolveTag", <<Some(oldest.name)>>))
          c4 == Append(c3, Call("resolveTag", <<Some(newest.name)>>))
      IN IF oldestAns.threw THEN FrequencyFailed(c3)
         ELSE IF newestAns.threw THEN FrequencyFailed(c4)
         ELSE IF \/ ~Truthy(Field(oldestAns.value, "created_at"))
                 \/ ~Truthy(Field(newestAns.value, "created_at"))
         THEN Frequency(n, Null, c4)
         ELSE Frequency(n,
                PerWeek(n, daysBetween(Get(Get(newestAns.value).created_at),
                                       Get(Get(oldestAns.value).created_at))),
                c4)
  ELSE IF Len(rel.value) = 1 THEN Frequency(1, Null, c1)
  ELSE
    LET n == Len(rel.value)
        oldest == rel.value[n]
        newest == rel.value[1]
    IN Frequency(n, PerWeek(n, daysBetween(newest.created_at, oldest.created_at)), c1)

\* ------------------------------------------------- calculateCycleTime
\* A commit as the API returns it: commit.committer.date, commit.author.date
\* (either may be missing) and the number of parents.
AuthorDateOpt == {Null, Some(12)}

Commit(sha, committer, author, parents) ==
  [sha |-> sha, committer |-> committer, author |-> author, parents |-> parents]

CommitsAt(sha) ==
  {Commit(sha, cd, ad, p) : cd \in DateOpt, ad \in AuthorDateOpt, p \in 1..2}

RECURSIVE CommitListsOf(_)
CommitListsOf(n) ==
  IF n = 0 THEN {<<>>}
  ELSE {Append(cs, c) : cs \in CommitListsOf(n - 1), c \in CommitsAt(CommitShas[n])}

CommitLists == UNION {CommitListsOf(n) : n \in 0..MaxCommits}

CompareCommitsAnswers == {Ok(cs) : cs \in CommitLists} \cup {Threw}

\* getCommit(sha): the commit, or null.  A deployment without sha is asked
\* for as "undefined".
GetCommitAnswers(sha) ==
  {Ok(Null), Threw} \cup
  {Ok(Some(c)) : c \in CommitsAt(IF sha = Null THEN "undefined" ELSE Get(sha))}

\* the author date taken before the committer date
CommitDateAuthorFirst(c) == OrElse(c.author, c.committer)

\* c.commit?.committer?.date || c.commit?.author?.date
CommitDate(c) == OrElse(c.committer, c.author)

\* c.parents?.length > 1 || false
IsMerge(c) == c.parents > 1

\* seq.filter(Test)
Filter(seq, Test(_)) == SelectSeq(seq, Test)

\* seq.find(Test): the first element passing Test, as an option
Find(seq, Test(_)) ==
  IF Filter(seq, Test) = <<>> THEN Null ELSE Some(Head(Filter(seq, Test)))

RECURSIVE Sum(_)
Sum(ns) == IF ns = <<>> THEN 0 ELSE Head(ns) + Sum(Tail(ns))

\* Math.max(...ns), Math.min(...ns) of a non-empty list
Max(ns) == CHOOSE m \in {ns[i] : i \in 1..Len(ns)} : \A i \in 1..Len(ns) : ns[i] <= m
Min(ns) == CHOOSE m \in {ns[i] : i \in 1..Len(ns)} : \A i \in 1..Len(ns) : ns[i] >= m

Dated(c) == Truthy(CommitDate(c))

\* commitsWithAges: the dated commits with their age against the deployment
CommitsWithAges(created_at, allCommits) ==
  LET dated == Filter(allCommits, Dated) IN
  [i \in 1..Len(dated) |->
     [sha |-> Some(dated[i].sha),
      date |-> CommitDate(dated[i]),
      age |-> hoursBetween(created_at, Get(CommitDate(dated[i]))),
      isMerge |-> IsMerge(dated[i])]]

NotMerge(c) == ~c.isMerge

\* candidates that never leave the merge commits out
CandidateCommitsAll(commitsWithAges, includeMergeCommits) == commitsWithAges

\* the candidates with the merge commits always left out, whatever the option
CandidateCommitsNonMerge(commitsWithAges, includeMergeCommits) ==
  Filter(commitsWithAges, NotMerge)

\* candidateCommits: the commits the newest one is looked for among
CandidateCommits(commitsWithAges, includeMergeCommits) ==
  IF ~includeMergeCommits THEN Filter(commitsWithAges, NotMerge) ELSE commitsWithAges

Ages(cs) == [i \in 1..Len(cs) |-> cs[i].age]

\* statistics taken over the candidates when there are any
StatsCommitsOfCandidates(commitsWithAges, includeMergeCommits) ==
  IF Len(CandidateCommits(commitsWithAges, includeMergeCommits)) > 0
  THEN CandidateCommits(commitsWithAges, includeMergeCommits)
  ELSE commitsWithAges

\* the commits the average and the oldest are taken over: all of them
StatsCommits(commitsWithAges, includeMergeCommits) == commitsWithAges

\* a fallback that takes the oldest merge commit
NewestOfFallbackOldest(commitsWithAges, candidates) ==
  LET pool == IF Len(candidates) > 0 THEN candidates ELSE commitsWithAges
      pick == IF Len(candidates) > 0 THEN Min(Ages(pool)) ELSE Max(Ages(pool))
      IsPick(c) == c.age = pick
  IN [sha |-> Field(Find(pool, IsPick), "sha"), hours |-> Some(ToFixed2(pick, 1))]

\* the newest commit among the candidates, without the fallback
NewestOfCandidates(commitsWithAges, candidates) ==
  IF Len(candidates) = 0 THEN [sha |-> Null, hours |-> Null]
  ELSE LET low == Min(Ages(candidates))
           IsLow(c) == c.age = low
       IN [sha |-> Field(Find(candidates, IsLow), "sha"),
           hours |-> Some(ToFixed2(low, 1))]

\* The newest commit among the candidates, or among all commits when there is
\* no candidate.
NewestOf(commitsWithAges, candidates) ==
  LET pool == IF Len(candidates) > 0 THEN candidates ELSE commitsWithAges
      low == Min(Ages(pool))
      IsLow(c) == c.age = low
  IN [sha |-> Field(Find(pool, IsLow), "sha"), hours |-> Some(ToFixed2(low, 1))]

\* The object calculateCycleTime returns for the commit set allCommits.
CycleTimeOf(created_at, allCommits, includeMergeCommits) ==
  LET commitDates == Filter(allCommits, Dated)
      commitsWithAges == CommitsWithAges(created_at, allCommits)
      ages == Ages(StatsCommits(commitsWithAges, includeMergeCommits))
      IsOldest(c) == c.age = Max(ages)
      some == Len(commitDates) > 0 /\ Len(commitsWithAges) > 0
      newest == NewestOf(commitsWithAges,
                         CandidateCommits(commitsWithAges, includeMergeCommits))
  IN [commit_count |-> Len(commitDates),
      avg_hours |-> IF some THEN Some(ToFixed2(Sum(ages), Len(ages))) ELSE Null,
      oldest_hours |-> IF some THEN Some(ToFixed2(Max(ages), 1)) ELSE Null,
      newest_hours |-> IF some THEN newest.hours ELSE Null,
      oldest_commit_sha |->
        IF some THEN Field(Find(commitsWithAges, IsOldest), "sha") ELSE Null,
      newest_commit_sha |-> IF some THEN newest.sha ELSE Null,
      newest_excludes_merges |-> ~includeMergeCommits]

\* a test of previous alone
HasPrevious(previous) == previous # Null

\* previous?.sha
HasPreviousSha(previous) == Truthy(Field(previous, "sha"))

CycleRun(threw, value, allCommits, calls) ==
  [threw |-> threw, value |-> value, allCommits |-> allCommits, calls |-> calls]

\* The run of calculateCycleTime(latest, previous) on the answers comparison
\* (compareCommits) and single (getCommit): the object returned (or the
\* exception), the commit set used and the calls made.
calculateCycleTime(latest, previous, includeMergeCommits, comparison, single) ==
  IF HasPreviousSha(previous) THEN
    LET calls == <<Call("compareCommits", <<Get(previous).sha, latest.sha>>)>> IN
    IF comparison.threw THEN CycleRun(TRUE, Null, <<>>, calls)
    ELSE CycleRun(FALSE,
           Some(CycleTimeOf(Get(latest.created_at), comparison.value,
                            includeMergeCommits)),
           comparison.value, calls)
  ELSE
    LET calls == <<Call("getCommit", <<latest.sha>>)>>
        allCommits == IF Truthy(single.value) THEN <<Get(single.value)>> ELSE <<>>
    IN IF single.threw THEN CycleRun(TRUE, Null, <<>>, calls)
       ELSE CycleRun(FALSE,
              Some(CycleTimeOf(Get(latest.created_at), allCommits,
                               includeMergeCommits)),
              allCommits, calls)

\* ------------------------------------------------------- collectMetrics
Options ==
  [includeMergeCommits : BOOLEAN,
   enabledMetrics : [deploymentFrequency : BOOLEAN, leadTime : BOOLEAN]]

\* What an answer of resolveTag holds: whether it is an object, and whether
\* the object has a sha and a created_at.
Shape(answer) ==
  [object |-> ~answer.threw /\ answer.value # Null,
   sha |-> Truthy(Field(answer.value, "sha")),
   created_at |-> Truthy(Field(answer.value, "created_at"))]

\* the options of a collector constructed without any
DefaultOptions ==
  [includeMergeCommits |-> FALSE,
   enabledMetrics |-> [deploymentFrequency |-> TRUE, leadTime |-> TRUE]]

\* What determineDataSource reads of a list: its length and its first two
\* entries.
Front(answer) ==
  [threw |-> answer.threw,
   count |-> Len(answer.value),
   value |-> SubSeq(answer.value, 1, IF Len(answer.value) < 2 THEN Len(answer.value) ELSE 2)]

NothingSeen ==
  [releases |-> Front(Unasked), tags |-> Front(Unasked), head |-> Shape(Unasked)]
NothingAsked ==
  [releases |-> Unasked, tags |-> Unasked, oldest |-> Unasked, newest |-> Unasked]
NoFrequency == Null
NoCycle == CycleRun(FALSE, Null, <<>>, <<>>)
NoMetricsData ==
  [keys |-> {}, deploy_frequency_days |-> Null, deploy_count |-> Null,
   cycle_time |-> Null]

ErrorResult(error) ==
  [error |-> Some(error), source |-> Null, latest |-> Null, previous |-> Null,
   metrics |-> Null]

\* a catch block that drops the message of the exception
CaughtWithoutMessage(message) == ErrorResult(<<"Metrics collection failed: ">>)

\* the catch block of collectMetrics
Caught(message) == ErrorResult(<<"Metrics collection failed: ", Get(message)>>)

\* toISOString(date): the ISO form of an instant
toISOString(date) == [iso |-> date]

Init ==
  /\ options \in Options
  /\ pc = "determineDataSource"
  /\ clientCalls = <<>>
  /\ seen = NothingSeen
  /\ asked = NothingAsked
  /\ dataSource = Null
  /\ latestDeployment = Null
  /\ previousDeployment = Null
  /\ frequency = NoFrequency
  /\ cycle = NoCycle
  /\ metricsData = NoMetricsData
  /\ result = Null

\* const { source, latest, previous } = await this.determineDataSource()
ResolveSource ==
  /\ pc = "determineDataSource"
  /\ \E rel \in ListReleasesAnswers :
     \E tags \in ListTagsAnswersFor(
                   determineDataSource(rel, Unasked, Unasked, Unasked).calls) :
     \E first \in ResolveAnswersFor(
                    determineDataSource(rel, tags, Unasked, Unasked).calls, 1) :
     \E second \in ResolveAnswersFor(
                     determineDataSource(rel, tags, first, Unasked).calls, 2) :
       \E run \in {determineDataSource(rel, tags, first, second)} :
       /\ clientCalls' = clientCalls \o run.calls
       /\ seen' = [releases |-> Front(rel), tags |-> Front(tags),
                    head |-> Shape(first)]
       /\ dataSource' = run.source
       /\ latestDeployment' = run.latest
       /\ previousDeployment' = run.previous
       /\ IF run.threw
          THEN /\ result' = Some(Caught(run.message))
               /\ pc' = "done"
          ELSE /\ result' = result
               /\ pc' = "checkLatest"
  /\ UNCHANGED <<options, asked, frequency, cycle, metricsData>>

\* a check of the sha alone
UnresolvedSha(deployment) == ~Truthy(Field(deployment, "sha"))

\* !latest?.sha || !latest?.created_at
Unresolved(deployment) ==
  ~Truthy(Field(deployment, "sha")) \/ ~Truthy(Field(deployment, "created_at"))

CheckLatest ==
  /\ pc = "checkLatest"
  /\ IF Unresolved(latestDeployment)
     THEN /\ result' = Some(ErrorResult(
                 <<"Could not resolve latest release/tag SHA or created_at">>))
          /\ pc' = "done"
     ELSE /\ result' = result
          /\ pc' = "deployFrequency"
  /\ UNCHANGED <<options, clientCalls, seen, asked, dataSource, latestDeployment,
                 previousDeployment,
                 frequency, cycle, metricsData>>

\* metricsData after the deploy frequency block
WithFrequency(data, deployFrequencyMetrics) ==
  [data EXCEPT !.keys = @ \cup {"deploy_frequency_days", "deploy_count"},
               !.deploy_frequency_days = deployFrequencyMetrics.deploysPerWeek,
               !.deploy_count = Some(deployFrequencyMetrics.deployCount)]

CollectDeployFrequency ==
  /\ pc = "deployFrequency"
  /\ IF options.enabledMetrics.deploymentFrequency
     THEN \E rel \in ListReleasesAnswers :
          \E tags \in ListTagsAnswersFor(
                 calculateDeployFrequency(rel, Unasked, Unasked, Unasked).calls) :
          \E oldest \in ResolveAnswersFor(
                 calculateDeployFrequency(rel, tags, Unasked, Unasked).calls, 1) :
          \E newest \in ResolveAnswersFor(
                 calculateDeployFrequency(rel, tags, oldest, Unasked).calls, 2) :
            \E run \in {calculateDeployFrequency(rel, tags, oldest, newest)} :
            /\ clientCalls' = clientCalls \o run.calls
            /\ frequency' = Some([deployCount |-> run.deployCount,
                                  deploysPerWeek |-> run.deploysPerWeek])
            /\ metricsData' = WithFrequency(metricsData, run)
     ELSE UNCHANGED <<clientCalls, frequency, metricsData>>
  /\ pc' = "cycleTime"
  /\ UNCHANGED <<options, seen, asked, dataSource, latestDeployment,
                 previousDeployment, cycle, result>>

\* The answers calculateCycleTime may get for the calls it makes.
CompareAnswersFor(log, answers) ==
  IF Asks(log, "compareCommits") THEN answers ELSE {Unasked}

GetCommitAnswersFor(log) ==
  IF Asks(log, "getCommit")
  THEN GetCommitAnswers(Get(NthCall(log, "getCommit", 1)).args[1])
  ELSE {Unasked}

\* Inside collectMetrics the comparison is drawn among the commit lists of at
\* most one commit (a direct call of calculateCycleTime takes them all).
ShortCompareAnswers == {a \in CompareCommitsAnswers : Len(a.value) <= 1}

\* The `latest` and `previous` entries of the metrics object.
ReportLatest(latest) ==
  [name |-> OrElse(OrElse(latest.name, latest.tag), latest.name),
   tag |-> OrElse(latest.tag, latest.name),
   sha |-> latest.sha,
   created_at |-> Some(toISOString(Get(latest.created_at)))]

ReportPrevious(previous) ==
  IF previous = Null THEN Null
  ELSE Some([name |-> OrElse(OrElse(Get(previous).name, Get(previous).tag),
                             Get(previous).name),
             tag |-> OrElse(Get(previous).tag, Get(previous).name),
             sha |-> Get(previous).sha,
             created_at |->
               IF Truthy(Get(previous).created_at)
               THEN Some(toISOString(Get(Get(previous).created_at)))
               ELSE Null])

\* the metrics object collectMetrics returns
Metrics(source, latest, previous, data) ==
  [error |-> Null,
   source |-> source,
   latest |-> Some(ReportLatest(Get(latest))),
   previous |-> ReportPrevious(previous),
   metrics |-> Some(data)]

\* metricsData after the lead time block
WithCycleTime(data, leadTimeMetrics) ==
  [data EXCEPT !.keys = @ \cup {"cycle_time"}, !.cycle_time = Some(leadTimeMetrics)]

\* The lead time block, then the metrics object is built and returned.
CollectCycleTime ==
  /\ pc = "cycleTime"
  /\ IF options.enabledMetrics.leadTime
     THEN LET plan == calculateCycleTime(Get(latestDeployment), previousDeployment,
                        options.includeMergeCommits, Unasked, Unasked).calls IN
          \E comparison \in CompareAnswersFor(plan, ShortCompareAnswers) :
          \E single \in GetCommitAnswersFor(plan) :
            \E run \in {calculateCycleTime(Get(latestDeployment), previousDeployment,
                           options.includeMergeCommits, comparison, single)} :
            /\ clientCalls' = clientCalls \o run.calls
            /\ IF run.threw
               THEN /\ result' = Some(Caught(Some("API error")))
                    /\ metricsData' = metricsData
               ELSE /\ metricsData' = WithCycleTime(metricsData, Get(run.value))
                    /\ result' = Some(Metrics(dataSource, latestDeployment,
                                              previousDeployment, metricsData'))
     ELSE /\ result' = Some(Metrics(dataSource, latestDeployment,
                                    previousDeployment, metricsData))
          /\ UNCHANGED <<clientCalls, metricsData>>
  /\ pc' = "done"
  /\ UNCHANGED <<options, seen, asked, dataSource, latestDeployment,
                 previousDeployment, frequency, cycle>>

Next ==
  \/ ResolveSource
  \/ CheckLatest
  \/ CollectDeployFrequency
  \/ CollectCycleTime

Spec == Init /\ [][Next]_vars

\* --------------------------------- a direct call of calculateDeployFrequency
InitFrequency ==
  /\ options = DefaultOptions
  /\ pc = "calculateDeployFrequency"
  /\ clientCalls = <<>>
  /\ seen = NothingSeen
  /\ asked = NothingAsked
  /\ dataSource = Null
  /\ latestDeployment = Null
  /\ previousDeployment = Null
  /\ frequency = NoFrequency
  /\ cycle = NoCycle
  /\ metricsData = NoMetricsData
  /\ result = Null

CallCalculateDeployFrequency ==
  /\ pc = "calculateDeployFrequency"
  /\ \E rel \in ListReleasesAnswers :
     \E tags \in ListTagsAnswersFor(
            calculateDeployFrequency(rel, Unasked, Unasked, Unasked).calls) :
     \E oldest \in ResolveAnswersFor(
            calculateDeployFrequency(rel, tags, Unasked, Unasked).calls, 1) :
     \E newest \in ResolveAnswersFor(
            calculateDeployFrequency(rel, tags, oldest, Unasked).calls, 2) :
       \E run \in {calculateDeployFrequency(rel, tags, oldest, newest)} :
       /\ clientCalls' = run.calls
       /\ asked' = [releases |-> rel, tags |-> tags, oldest |-> oldest,
                    newest |-> newest]
       /\ frequency' = Some([deployCount |-> run.deployCount,
                             deploysPerWeek |-> run.deploysPerWeek])
  /\ pc' = "returned"
  /\ UNCHANGED <<options, seen, dataSource, latestDeployment, previousDeployment,
                 cycle, metricsData, result>>

NextFrequency == CallCalculateDeployFrequency

SpecFrequency == InitFrequency /\ [][NextFrequency]_vars

\* --------------------------------------- a direct call of calculateCycleTime
\* The arguments of the call: a latest deployment with its created_at, and a
\* previous deployment that is absent, without sha, or with one.
LatestArguments ==
  {Some([name |-> Null, tag |-> Null, sha |-> sha, created_at |-> Some(t)]) :
     sha \in {Null, Some("sha2")}, t \in Times}

PreviousArguments ==
  {Null} \cup
  {Some([name |-> Null, tag |-> Null, sha |-> sha, created_at |-> Null]) :
     sha \in {Null, Some("sha1")}}

InitCycleTime ==
  /\ options \in {o \in Options : o.enabledMetrics = DefaultOptions.enabledMetrics}
  /\ pc = "calculateCycleTime"
  /\ clientCalls = <<>>
  /\ seen = NothingSeen
  /\ asked = NothingAsked
  /\ dataSource = Null
  /\ latestDeployment \in LatestArguments
  /\ previousDeployment \in PreviousArguments
  /\ frequency = NoFrequency
  /\ cycle = NoCycle
  /\ metricsData = NoMetricsData
  /\ result = Null

CallCalculateCycleTime ==
  /\ pc = "calculateCycleTime"
  /\ LET plan == calculateCycleTime(Get(latestDeployment), previousDeployment,
                   options.includeMergeCommits, Unasked, Unasked).calls IN
     \E comparison \in CompareAnswersFor(plan, CompareCommitsAnswers) :
     \E single \in GetCommitAnswersFor(plan) :
       \E run \in {calculateCycleTime(Get(latestDeployment), previousDeployment,
                      options.includeMergeCommits, comparison, single)} :
       /\ clientCalls' = run.calls
       /\ asked' = [comparison |-> comparison, single |-> single]
       /\ cycle' = run
  /\ pc' = "returned"
  /\ UNCHANGED <<options, seen, dataSource, latestDeployment,
                 previousDeployment, frequency, metricsData, result>>

NextCycleTime == CallCalculateCycleTime

SpecCycleTime == InitCycleTime /\ [][NextCycleTime]_vars

\* ================================================================ PR maturity
\* The maturity calculator (calculatePRMaturity and its helpers).  Instants
\* are seconds; options, pc, clientCalls, asked and result hold this.options,
\* the position of the call, the calls made on the client, the answers given
\* and the object returned.
MaxPRCommits == 3   \* most commits a pull request holds
MaxFiles == 2       \* most files a file list or a diff holds

\* new Date(prDetails.created_at)
PrCreatedAt == 600

\* the grace period in minutes
GraceMinutes == 5

\* commit.author.date: an invalid date, or an instant 10 minutes before, 5
\* minutes after or 5 minutes and a second after the creation of the PR
AuthorDates ==
  {Null, Some(PrCreatedAt - 600), Some(PrCreatedAt + 300), Some(PrCreatedAt + 301)}

PRShas == <<"c1", "c2", "c3", "c4", "c5">>

PRCommit(i, date) == [sha |-> PRShas[i], date |-> date]

RECURSIVE PRCommitListsOf(_)
PRCommitListsOf(n) ==
  IF n = 0 THEN {<< >>}
  ELSE {Append(cs, PRCommit(n, d)) : cs \in PRCommitListsOf(n - 1), d \in AuthorDates}

PRCommitLists == UNION {PRCommitListsOf(n) : n \in 0..MaxPRCommits}

\* A file of a file list: its name (a string of characters), status, additions
\* and deletions.
File(filename, status, additions, deletions) ==
  [filename |-> filename, status |-> status, additions |-> additions,
   deletions |-> deletions]

FileCatalogue ==
  <<File(<<"a", ".", "j", "s">>, "modified", 100, 15),
    File(<<"b", ".", "m", "d">>, "modified", 20, 0),
    File(<<"c", ".", "j", "s">>, "removed", 0, 15),
    File(<<"d", "x", "m", "d">>, "added", 15, 0)>>

\* the file lists: files of the catalogue, in its order
RECURSIVE FileListsFrom(_, _)
FileListsFrom(i, room) ==
  IF i > Len(FileCatalogue) \/ room = 0 THEN {<< >>}
  ELSE FileListsFrom(i + 1, room) \cup
       {<<FileCatalogue[i]>> \o fs : fs \in FileListsFrom(i + 1, room - 1)}

FileLists == FileListsFrom(1, MaxFiles)

\* getPullRequest: null, or the details; getPullRequestCommits and
\* getPullRequestFiles: null, or the list; compareCommitsDiff: null, or an
\* object whose files may be missing.  Each may throw.
PullRequestAnswers == {Threw, Ok(Null), Ok(Some([created_at |-> PrCreatedAt]))}
PullRequestCommitsAnswers == {Threw, Ok(Null)} \cup {Ok(Some(cs)) : cs \in PRCommitLists}
PullRequestFilesAnswers == {Threw, Ok(Null)} \cup {Ok(Some(fs)) : fs \in FileLists}
CompareCommitsDiffAnswers ==
  {Threw, Ok(Null), Ok(Some([files |-> Null]))} \cup
  {Ok(Some([files |-> Some(fs)])) : fs \in FileLists}

\* pattern.replace(/\*/g, '.*').replace(/\?/g, '.') as a regular expression:
\* "*" is any string, "?" is any character, and so is a "." of the pattern
RegexToken(ch) ==
  IF ch = "*" THEN "any string" ELSE IF ch \in {"?", "."} THEN "any character" ELSE ch

RegexOf(pattern) == [i \in 1..Len(pattern) |-> RegexToken(pattern[i])]

\* new RegExp(`^${regexPattern}$`).test(filename)
RECURSIVE RegexTest(_, _)
RegexTest(regex, filename) ==
  IF regex = << >> THEN filename = << >>
  ELSE IF Head(regex) = "any string"
    THEN \/ RegexTest(Tail(regex), filename)
         \/ filename # << >> /\ RegexTest(regex, Tail(filename))
  ELSE /\ filename # << >>
       /\ Head(regex) \in {"any character", Head(filename)}
       /\ RegexTest(Tail(regex), Tail(filename))

IgnorePatterns == {<< >>, <<<<"*", ".", "m", "d">>>>}

MaturityOptions ==
  [filesToIgnore : IgnorePatterns, ignoreLineDeletions : BOOLEAN,
   ignoreFileDeletions : BOOLEAN]

ShouldIgnore(opts, file) ==
  \E i \in 1..Len(opts.filesToIgnore) :
    RegexTest(RegexOf(opts.filesToIgnore[i]), file.filename)

filterFiles(opts, files) ==
  LET Kept(file) ==
        /\ ~(opts.ignoreFileDeletions /\ file.status = "removed")
        /\ ~(Len(opts.filesToIgnore) > 0 /\ ShouldIgnore(opts, file))
  IN SelectSeq(files, Kept)

RECURSIVE SumOver(_, _)
SumOver(files, field) ==
  IF files = << >> THEN 0 ELSE Head(files)[field] + SumOver(Tail(files), field)

calculateSizeDetails(opts, files) ==
  LET total_additions == SumOver(files, "additions")
      total_deletions ==
        IF ~opts.ignoreLineDeletions THEN SumOver(files, "deletions") ELSE 0
  IN [total_additions |-> total_additions, total_deletions |-> total_deletions,
      total_changes |-> total_additions + total_deletions]

calculateDiffSize(files) == SumOver(files, "additions") + SumOver(files, "deletions")

Abs(x) == IF x < 0 THEN 0 - x ELSE x

\* a quotient cut down to the integer below
MathFloor(num, den) == num \div den

\* Math.round(num / den) of a quotient that is not negative
MathRound(num, den) == (2 * num + den) \div (2 * den)

\* a grace period that ends before the fifth minute is over
WithinGraceStrict(commit, created) ==
  /\ commit.date # Null
  /\ \/ Abs(Get(commit.date) - created) < GraceMinutes * 60
     \/ Get(commit.date) <= created

\* a grace period that forgets the commits made long before the PR
WithinGraceWindow(commit, created) ==
  /\ commit.date # Null
  /\ Abs(Get(commit.date) - created) <= GraceMinutes * 60

\* timeDiffMinutes <= 5 || commitDate <= prCreatedAt (false of an invalid date)
WithinGracePeriod(commit, created) ==
  /\ commit.date # Null
  /\ \/ Abs(Get(commit.date) - created) <= GraceMinutes * 60
     \/ Get(commit.date) <= created

\* every commit made after the creation of the PR taken as significant
SignificantFromCreation(commit, created) ==
  commit.date # Null /\ Get(commit.date) - created > 0

\* a threshold of 10 minutes
SignificantLater(commit, created) ==
  commit.date # Null /\ Get(commit.date) - created > 2 * GraceMinutes * 60

\* timeDiffMinutes > 5 (false of an invalid date)
Significant(commit, created) ==
  commit.date # Null /\ Get(commit.date) - created > GraceMinutes * 60

NoDetails ==
  [error |-> Null, total_commits |-> Null, commits_after_publication |-> Null,
   total_changes |-> Null, changes_after_publication |-> Null,
   stable_changes |-> Null, first_commit_sha |-> Null, last_commit_sha |-> Null,
   baseline_commit_sha |-> Null, first_significant_commit_sha |-> Null,
   pr_created_at |-> Null, reason |-> Null]

\* { maturity_ratio: null, maturity_percentage: null, details: { error } }
MaturityError(message) ==
  [maturity_ratio |-> Null, maturity_percentage |-> Null,
   details |-> [NoDetails EXCEPT !.error = Some(message)]]

\* The three returns of 100%: maturity_ratio 1.0 (in thousandths) and every
\* change counted as stable.
FullMaturity(prCommits, created, sizeDetails, reason) ==
  [maturity_ratio |-> Some(1000), maturity_percentage |-> Some(100),
   details |->
     [NoDetails EXCEPT
        !.total_commits = Some(Len(prCommits)),
        !.total_changes = Some(sizeDetails.total_changes),
        !.changes_after_publication = Some(0),
        !.stable_changes = Some(sizeDetails.total_changes),
        !.first_commit_sha = Some(prCommits[1].sha),
        !.last_commit_sha = Some(prCommits[Len(prCommits)].sha),
        !.pr_created_at = Some(toISOString(created)),
        !.reason = Some(reason)]]

\* stableChanges: Math.max(0, total - after)
StableChanges(total, after) == IF total - after > 0 THEN total - after ELSE 0

\* The return of the general case: the ratio in thousandths, the percentage.
MeasuredMaturity(prCommits, created, significant, baseline, total, after) ==
  LET stableChanges == StableChanges(total, after) IN
  [maturity_ratio |->
     Some(IF total > 0 THEN MathRound(1000 * stableChanges, total) ELSE 1000),
   maturity_percentage |->
     Some(IF total > 0 THEN MathRound(100 * stableChanges, total) ELSE 100),
   details |->
     [NoDetails EXCEPT
        !.total_commits = Some(Len(prCommits)),
        !.commits_after_publication = Some(Len(significant)),
        !.total_changes = Some(total),
        !.changes_after_publication = Some(after),
        !.stable_changes = Some(stableChanges),
        !.first_commit_sha = Some(prCommits[1].sha),
        !.last_commit_sha = Some(prCommits[Len(prCommits)].sha),
        !.baseline_commit_sha = Some(baseline.sha),
        !.first_significant_commit_sha = Some(significant[1].sha),
        !.pr_created_at = Some(toISOString(created)),
        !.reason = Some("Calculated based on meaningful commits after publication")]]

MaturityRun(value, calls) == [value |-> value, calls |-> calls]

\* a catch block that reports a maturity of zero
MaturityCaughtAsZero(calls) ==
  MaturityRun([maturity_ratio |-> Some(0), maturity_percentage |-> Some(0),
               details |-> [NoDetails EXCEPT !.error = Some("API error")]], calls)

\* the catch block: details.error is the message of the exception
MaturityCaught(calls) == MaturityRun(MaturityError("API error"), calls)

\* prCommits.findIndex((c) => c.sha === sha), counted from 1
FindIndex(prCommits, sha) ==
  CHOOSE i \in 1..Len(prCommits) :
    /\ prCommits[i].sha = sha
    /\ \A j \in 1..(i - 1) : prCommits[j].sha # sha

\* a baseline that is the first significant commit itself
BaselineAtFirstSignificant(prCommits, firstSignificantIndex) ==
  prCommits[firstSignificantIndex]

\* a baseline taken at the end of the list
BaselineAtLast(prCommits, firstSignificantIndex) == prCommits[Len(prCommits)]

\* prCommits.length === 1, mistaken for an empty list
SingleCommitWhenNone(prCommits) == Len(prCommits) < 1

\* prCommits.length === 1
SingleCommit(prCommits) == Len(prCommits) = 1

\* firstSignificantIndex > 0 ? prCommits[firstSignificantIndex - 1] : prCommits[0]
BaselineCommit(prCommits, firstSignificantIndex) ==
  IF firstSignificantIndex > 1 THEN prCommits[firstSignificantIndex - 1]
  ELSE prCommits[1]

\* The run of calculatePRMaturity on the answers of getPullRequest,
\* getPullRequestCommits, getPullRequestFiles and compareCommitsDiff.
calculatePRMaturity(opts, prDetails, commitsAnswer, prFiles, diff) ==
  LET c1 == <<Call("getPullRequest", << >>)>>
      c2 == Append(c1, Call("getPullRequestCommits", << >>))
      c3 == Append(c2, Call("getPullRequestFiles", << >>))
  IN
  IF prDetails.threw THEN MaturityCaught(c1)
  ELSE IF prDetails.value = Null
    THEN MaturityRun(MaturityError("Could not fetch PR details"), c1)
  ELSE IF commitsAnswer.threw THEN MaturityCaught(c2)
  ELSE IF commitsAnswer.value = Null \/ Len(Get(commitsAnswer.value)) = 0
    THEN MaturityRun(MaturityError("No commits found in PR"), c2)
  ELSE
    LET prCommits == Get(commitsAnswer.value)
        created == Get(prDetails.value).created_at
        InGrace(c) == WithinGracePeriod(c, created)
        IsSignificant(c) == Significant(c, created)
        significant == SelectSeq(prCommits, IsSignificant)
        sizeDetails ==
          calculateSizeDetails(opts,
            filterFiles(opts, IF prFiles.value = Null THEN << >>
                              ELSE Get(prFiles.value)))
    IN
    IF SingleCommit(prCommits) THEN
      IF prFiles.threw THEN MaturityCaught(c3)
      ELSE MaturityRun(
             FullMaturity(prCommits, created, sizeDetails, "Single commit PR"), c3)
    ELSE IF Len(SelectSeq(prCommits, InGrace)) = Len(prCommits) THEN
      IF prFiles.threw THEN MaturityCaught(c3)
      ELSE MaturityRun(
             FullMaturity(prCommits, created, sizeDetails,
                          "All commits within grace period or pre-existing"), c3)
    ELSE IF Len(significant) = 0 THEN
      IF prFiles.threw THEN MaturityCaught(c3)
      ELSE MaturityRun(
             FullMaturity(prCommits, created, sizeDetails,
                          "No significant commits after PR publication"), c3)
    ELSE
      LET baseline == BaselineCommit(prCommits, FindIndex(prCommits, significant[1].sha))
          lastCommit == prCommits[Len(prCommits)]
          c4 == Append(c3, Call("compareCommitsDiff", <<baseline.sha, lastCommit.sha>>))
      IN IF prFiles.threw THEN MaturityCaught(c3)
         ELSE IF diff.threw THEN MaturityCaught(c4)
         ELSE IF diff.value = Null
           THEN MaturityRun(
                  MaturityError("Could not compare commits for maturity analysis"), c4)
         ELSE MaturityRun(
                MeasuredMaturity(prCommits, created, significant, baseline,
                  sizeDetails.total_changes,
                  calculateDiffSize(IF Get(diff.value).files = Null THEN << >>
                                    ELSE Get(Get(diff.value).files))),
                c4)

\* the answers a client method may give when the run calls it
AnswersWhenAsked(log, op, answers) == IF Asks(log, op) THEN answers ELSE {Unasked}

NoMaturityAnswers ==
  [details |-> Unasked, commits |-> Unasked, files |-> Unasked, diff |-> Unasked]

\* A collector with its options, about to be asked for the maturity of a PR.
InitMaturity ==
  /\ options \in MaturityOptions
  /\ pc = "calculatePRMaturity"
  /\ clientCalls = << >>
  /\ seen = NothingSeen
  /\ asked = NoMaturityAnswers
  /\ dataSource = Null
  /\ latestDeployment = Null
  /\ previousDeployment = Null
  /\ frequency = NoFrequency
  /\ cycle = NoCycle
  /\ metricsData = NoMetricsData
  /\ result = Null

CallCalculatePRMaturity ==
  /\ pc = "calculatePRMaturity"
  /\ \E prDetails \in PullRequestAnswers :
     \E prCommits \in AnswersWhenAsked(
          calculatePRMaturity(options, prDetails, Unasked, Unasked, Unasked).calls,
          "getPullRequestCommits", PullRequestCommitsAnswers) :
     \E prFiles \in AnswersWhenAsked(
          calculatePRMaturity(options, prDetails, prCommits, Unasked, Unasked).calls,
          "getPullRequestFiles", PullRequestFilesAnswers) :
     \E diff \in AnswersWhenAsked(
          calculatePRMaturity(options, prDetails, prCommits, prFiles, Unasked).calls,
          "compareCommitsDiff", CompareCommitsDiffAnswers) :
       \E run \in {calculatePRMaturity(options, prDetails, prCommits, prFiles, diff)} :
       /\ clientCalls' = run.calls
       /\ asked' = [details |-> prDetails, commits |-> prCommits,
                    files |-> prFiles, diff |-> diff]
       /\ result' = Some(run.value)
  /\ pc' = "returned"
  /\ UNCHANGED <<options, seen, dataSource, latestDeployment, previousDeployment,
                 frequency, cycle, metricsData>>

NextMaturity == CallCalculatePRMaturity

SpecMaturity == InitMaturity /\ [][NextMaturity]_vars

\* ------------------------------------------------- rating of PR maturity
\* TeamMetricsCollector.ratePRMaturity and OutputManager.getMaturityLevel.
\* A percentage is null, undefined or a whole number: calculatePRMaturity
\* rounds the percentage it returns.
MaxPercentage == 100

Percentages ==
  {[kind |-> k, value |-> 0] : k \in {"null", "undefined"}} \cup
  {[kind |-> "number", value |-> n] : n \in 0..MaxPercentage}

\* a rating whose top tier starts at 88
ratePRMaturityFrom88(percentage) ==
  IF percentage.kind = "null" \/ percentage.kind = "undefined" THEN "Unknown"
  ELSE IF percentage.value >= 88 THEN "Elite"
  ELSE IF percentage.value >= 81 THEN "Good"
  ELSE IF percentage.value >= 75 THEN "Fair"
  ELSE "Needs Focus"

ratePRMaturity(percentage) ==
  IF percentage.kind = "null" \/ percentage.kind = "undefined" THEN "Unknown"
  ELSE IF percentage.value > 88 THEN "Elite"
  ELSE IF percentage.value >= 81 THEN "Good"
  ELSE IF percentage.value >= 75 THEN "Fair"
  ELSE "Needs Focus"

getMaturityLevel(percentage) ==
  IF percentage.kind = "null" \/ percentage.kind = "undefined" THEN "Unknown"
  ELSE IF percentage.value > 88 THEN "Elite"
  ELSE IF percentage.value >= 81 THEN "Good"
  ELSE IF percentage.value >= 75 THEN "Fair"
  ELSE "Needs Focus"

\* A percentage about to be rated by the team collector and then described by
\* the output manager.
InitRating ==
  /\ options \in Percentages
  /\ pc = "ratePRMaturity"
  /\ clientCalls = << >>
  /\ seen = NothingSeen
  /\ asked = NothingAsked
  /\ dataSource = Null
  /\ latestDeployment = Null
  /\ previousDeployment = Null
  /\ frequency = NoFrequency
  /\ cycle = NoCycle
  /\ metricsData = NoMetricsData
  /\ result = [rating |-> Null, level |-> Null]

CallRatePRMaturity ==
  /\ pc = "ratePRMaturity"
  /\ result' = [result EXCEPT !.rating = Some(ratePRMaturity(options))]
  /\ pc' = "getMaturityLevel"
  /\ UNCHANGED <<options, clientCalls, seen, asked, dataSource, latestDeployment,
                 previousDeployment, frequency, cycle, metricsData>>

CallGetMaturityLevel ==
  /\ pc = "getMaturityLevel"
  /\ result' = [result EXCEPT !.level = Some(getMaturityLevel(options))]
  /\ pc' = "returned"
  /\ UNCHANGED <<options, clientCalls, seen, asked, dataSource, latestDeployment,
                 previousDeployment, frequency, cycle, metricsData>>

NextRating == CallRatePRMaturity \/ CallGetMaturityLevel

SpecRating == InitRating /\ [][NextRating]_vars

\* ------------------------------------------------ calculateAggregateStats
\* Hours are counted in hundredths, the precision the per-PR times are rounded
\* to.  Of the object returned, the entries of the three time metrics are
\* modelled; merge_frequency and size_distribution read other fields of the
\* PR metrics.
MaxPRs == 2         \* most PR metrics aggregated

HourValues == {Null, Some(0), Some(251)}

PRMetricLists ==
  UNION {[1..n -> [pickup_time_hours : HourValues, approve_time_hours : HourValues,
                   merge_time_hours : HourValues]] : n \in 0..MaxPRs}

\* prMetrics.map((m) => m[field]).filter((t) => t !== null)
RECURSIVE NonNullTimes(_, _)
NonNullTimes(prMetrics, field) ==
  IF prMetrics = << >> THEN << >>
  ELSE (IF Head(prMetrics)[field] # Null
        THEN <<Get(Head(prMetrics)[field])>> ELSE << >>)
       \o NonNullTimes(Tail(prMetrics), field)

\* the average of the times as sum and count, or null when there is none
AverageOf(times) ==
  IF Len(times) > 0 THEN Some([sum |-> Sum(times), count |-> Len(times)])
  ELSE Null

\* `avg ? .. : null`: null and 0 are both falsy
AverageTruthy(avg) == avg # Null /\ Get(avg).sum # 0

ratePickupTime(avg) ==
  IF avg.sum < 200 * avg.count THEN "Elite"
  ELSE IF avg.sum <= 600 * avg.count THEN "Good"
  ELSE IF avg.sum <= 1600 * avg.count THEN "Fair"
  ELSE "Needs Focus"

rateApproveTime(avg) ==
  IF avg.sum < 1700 * avg.count THEN "Elite"
  ELSE IF avg.sum <= 2400 * avg.count THEN "Good"
  ELSE IF avg.sum <= 4500 * avg.count THEN "Fair"
  ELSE "Needs Focus"

rateMergeTime(avg) ==
  IF avg.sum < 200 * avg.count THEN "Elite"
  ELSE IF avg.sum <= 500 * avg.count THEN "Good"
  ELSE IF avg.sum <= 1900 * avg.count THEN "Fair"
  ELSE "Needs Focus"

calculateAggregateStats(prMetrics) ==
  LET pickupTimes == NonNullTimes(prMetrics, "pickup_time_hours")
      approveTimes == NonNullTimes(prMetrics, "approve_time_hours")
      mergeTimes == NonNullTimes(prMetrics, "merge_time_hours")
      avgPickupTime == AverageOf(pickupTimes)
      avgApproveTime == AverageOf(approveTimes)
      avgMergeTime == AverageOf(mergeTimes)
  IN [pickup_time |->
        [average_hours |-> IF AverageTruthy(avgPickupTime)
                           THEN Some(MathRound(Get(avgPickupTime).sum, Get(avgPickupTime).count)) ELSE Null,
         rating |-> IF AverageTruthy(avgPickupTime)
                    THEN Some(ratePickupTime(Get(avgPickupTime))) ELSE Null,
         sample_size |-> Len(pickupTimes)],
      approve_time |->
        [average_hours |-> IF AverageTruthy(avgApproveTime)
                           THEN Some(MathRound(Get(avgApproveTime).sum, Get(avgApproveTime).count)) ELSE Null,
         rating |-> IF AverageTruthy(avgApproveTime)
                    THEN Some(rateApproveTime(Get(avgApproveTime))) ELSE Null,
         sample_size |-> Len(approveTimes)],
      merge_time |->
        [average_hours |-> IF AverageTruthy(avgMergeTime)
                           THEN Some(MathRound(Get(avgMergeTime).sum, Get(avgMergeTime).count)) ELSE Null,
         rating |-> IF AverageTruthy(avgMergeTime)
                    THEN Some(rateMergeTime(Get(avgMergeTime))) ELSE Null,
         sample_size |-> Len(mergeTimes)]]

\* The metrics of the PRs of a period, about to be aggregated.
InitAggregate ==
  /\ options \in PRMetricLists
  /\ pc = "calculateAggregateStats"
  /\ clientCalls = << >>
  /\ seen = NothingSeen
  /\ asked = NothingAsked
  /\ dataSource = Null
  /\ latestDeployment = Null
  /\ previousDeployment = Null
  /\ frequency = NoFrequency
  /\ cycle = NoCycle
  /\ metricsData = NoMetricsData
  /\ result = Null

CallCalculateAggregateStats ==
  /\ pc = "calculateAggregateStats"
  /\ result' = Some(calculateAggregateStats(options))
  /\ pc' = "returned"
  /\ UNCHANGED <<options, clientCalls, seen, asked, dataSource, latestDeployment,
                 previousDeployment, frequency, cycle, metricsData>>

NextAggregate == CallCalculateAggregateStats

SpecAggregate == InitAggregate /\ [][NextAggregate]_vars

\* ------------------------------------------------------------------ run()
\* main.js run() with the OutputManager it drives.  The inputs are the strings
\* core.getInput returns; of the inputs read before the metric switches,
\* commit-results and max-releases are drawn, of those read after them,
\* ignore-line-deletions; the token, output-path, include-merge-commits,
\* max-tags, files-to-ignore and ignore-file-deletions are taken as accepted.
RunInputs ==
  [commitResults : {"", "true", "false", "yes"}, maxReleases : {"", "0"},
   deploymentFrequency : {"", "true", "yes"}, leadTime : {"", "true", "yes"},
   prSize : {"", "true", "yes"}, prMaturity : {"", "true", "yes"},
   ignoreLineDeletions : {"", "yes"}, eventName : {"push", "pull_request"}]

\* core.getInput(name) || fallback
InputOr(input, fallback) == IF input = "" THEN fallback ELSE input

\* validateBoolean accepts 'true' and 'false' and throws on anything else
BooleanAccepted(text) == text \in {"true", "false"}
validateBoolean(text) == text = "true"

\* every validation of lines 19-69 passes; validatePositiveInteger throws on
\* what is not a positive integer
InputsAccepted(inputs) ==
  /\ BooleanAccepted(InputOr(inputs.commitResults, "true"))
  /\ InputOr(inputs.maxReleases, "100") # "0"
  /\ BooleanAccepted(InputOr(inputs.deploymentFrequency, "false"))
  /\ BooleanAccepted(InputOr(inputs.leadTime, "false"))
  /\ BooleanAccepted(InputOr(inputs.prSize, "false"))
  /\ BooleanAccepted(InputOr(inputs.prMaturity, "false"))
  /\ BooleanAccepted(InputOr(inputs.ignoreLineDeletions, "false"))

\* the switches as read, once accepted
Enabled(inputs) ==
  [deploymentFrequency |-> validateBoolean(InputOr(inputs.deploymentFrequency, "false")),
   leadTime |-> validateBoolean(InputOr(inputs.leadTime, "false")),
   prSize |-> validateBoolean(InputOr(inputs.prSize, "false")),
   prMaturity |-> validateBoolean(InputOr(inputs.prMaturity, "false"))]

NoMetricEnabled(e) ==
  ~e.deploymentFrequency /\ ~e.leadTime /\ ~e.prSize /\ ~e.prMaturity

\* a DORA collector wanted for the deployment frequency alone
needDoraForFrequency(e) == e.deploymentFrequency

needDoraMetrics(e) == e.deploymentFrequency \/ e.leadTime
needDevExMetrics(e) == e.prSize \/ e.prMaturity

\* a commit step that does not look at the event
ShouldCommitAnyEvent(commitResults, eventName) == commitResults

\* this.options.commitResults && process.env.GITHUB_EVENT_NAME !== 'pull_request'
ShouldCommit(commitResults, eventName) ==
  commitResults /\ eventName # "pull_request"

\* what MetricsCollector.collectMetrics resolves to: metrics, or an error result
DoraResults ==
  {[error |-> Null, source |-> Some("release"), metrics |-> TRUE],
   [error |-> Some("Metrics collection failed"), source |-> Null, metrics |-> FALSE]}

\* what DevExMetricsCollector.collectMetrics resolves to
DevExResults ==
  [pr_number : {Null, Some("pr")}, pr_size : BOOLEAN, pr_maturity : BOOLEAN]

\* the catch block of run(): core.error, core.setFailed
Failing(log) == log \o <<Call("setFailed", << >>)>>

RECURSIVE SetOutputs(_)
SetOutputs(names) ==
  IF names = << >> THEN << >>
  ELSE <<Call("setOutput", <<Head(names)>>)>> \o SetOutputs(Tail(names))

InitRun ==
  /\ options \in RunInputs
  /\ pc = "inputs"
  /\ clientCalls = << >>
  /\ seen = NothingSeen
  /\ asked = NothingAsked
  /\ dataSource = Null
  /\ latestDeployment = Null
  /\ previousDeployment = Null
  /\ frequency = NoFrequency
  /\ cycle = NoCycle
  \* combinedMetricsData, as far as run() and the output manager branch on it
  /\ metricsData = [error |-> Null, source |-> Null, dora |-> FALSE, devex |-> FALSE]
  /\ result = Null

RunUnchanged ==
  UNCHANGED <<options, seen, asked, dataSource, latestDeployment,
              previousDeployment, frequency, cycle>>

\* lines 19-108: the inputs are read and validated, one metric at least must
\* be enabled, the client and the output manager are constructed
ReadInputs ==
  /\ pc = "inputs"
  /\ IF ~InputsAccepted(options) \/ NoMetricEnabled(Enabled(options))
     THEN /\ clientCalls' = Failing(clientCalls)
          /\ pc' = "done"
     ELSE /\ clientCalls' = clientCalls \o
               <<Call("new GitHubClient", << >>), Call("new OutputManager", << >>)>>
          /\ pc' = "dora"
  /\ UNCHANGED <<metricsData, result>>
  /\ RunUnchanged

\* lines 110-141
CollectDora ==
  /\ pc = "dora"
  /\ IF needDoraMetrics(Enabled(options))
     THEN \E doraMetrics \in DoraResults :
            /\ clientCalls' = clientCalls \o
                 <<Call("new MetricsCollector", << >>),
                   Call("MetricsCollector.collectMetrics", << >>)>>
            /\ metricsData' = [metricsData EXCEPT !.error = doraMetrics.error,
                                                  !.source = doraMetrics.source,
                                                  !.dora = TRUE]
     ELSE UNCHANGED <<clientCalls, metricsData>>
  /\ pc' = "devex"
  /\ UNCHANGED result
  /\ RunUnchanged

\* lines 143-208
CollectDevEx ==
  /\ pc = "devex"
  /\ IF needDevExMetrics(Enabled(options))
     THEN \E devexMetrics \in DevExResults :
            LET e == Enabled(options)
                comment ==
                  IF devexMetrics.pr_number # Null /\ devexMetrics.pr_size /\ e.prSize
                  THEN <<Call("addPRComment", << >>), Call("addPRLabel", << >>)>>
                  ELSE << >>
                sizeOutputs ==
                  IF devexMetrics.pr_size /\ e.prSize
                  THEN SetOutputs(<<"pr-size", "pr-size-category", "pr-size-details">>)
                  ELSE << >>
                maturityOutputs ==
                  IF devexMetrics.pr_maturity /\ e.prMaturity
                  THEN SetOutputs(<<"pr-maturity-ratio", "pr-maturity-percentage",
                                    "pr-maturity-details">>)
                  ELSE << >>
            IN /\ clientCalls' = clientCalls \o
                    <<Call("new DevExMetricsCollector", << >>),
                      Call("DevExMetricsCollector.collectMetrics", << >>)>> \o
                    comment \o sizeOutputs \o maturityOutputs
               /\ metricsData' = [metricsData EXCEPT !.devex = TRUE]
     ELSE UNCHANGED <<clientCalls, metricsData>>
  /\ pc' = "writeMetricsFile"
  /\ UNCHANGED result
  /\ RunUnchanged

\* processOutputs, first step: a file that cannot be written makes
\* processOutputs throw, and run() fail
WriteMetricsFile ==
  /\ pc = "writeMetricsFile"
  /\ \E outcome \in {"ok", "failed"} :
       IF outcome = "ok"
       THEN /\ clientCalls' = clientCalls \o <<Call("writeJsonFile", <<outcome>>)>>
            /\ pc' = "setActionOutputs"
            /\ UNCHANGED result
       ELSE /\ clientCalls' = Failing(clientCalls \o <<Call("writeJsonFile", <<outcome>>)>>)
            /\ pc' = "done"
            /\ result' = Some("rejected")
  /\ UNCHANGED metricsData
  /\ RunUnchanged

SetActionOutputs ==
  /\ pc = "setActionOutputs"
  /\ clientCalls' = clientCalls \o
       SetOutputs(<<"metrics-json", "metrics-file-path">>) \o
       (IF metricsData.error = Null /\ metricsData.dora
        THEN SetOutputs(<<"deployment-frequency", "lead-time-avg", "lead-time-oldest",
                          "lead-time-newest", "commit-count">>)
        ELSE << >>)
  /\ pc' = "createMarkdownSummary"
  /\ UNCHANGED <<metricsData, result>>
  /\ RunUnchanged

\* the commands of commitResults, in the order of its exec.exec calls
GitSequence ==
  <<"git config user.name", "git config user.email", "git add", "git commit",
    "git push">>

\* a summary that cannot be written is a warning; then the commit step, if any
CreateMarkdownSummary ==
  /\ pc = "createMarkdownSummary"
  /\ \E outcome \in {"ok", "failed"} :
       clientCalls' = clientCalls \o <<Call("summary.write", <<outcome>>)>>
  /\ IF ShouldCommit(validateBoolean(InputOr(options.commitResults, "true")),
                     options.eventName)
     THEN pc' = GitSequence[1] /\ UNCHANGED result
     ELSE pc' = "done" /\ result' = Some("resolved")
  /\ UNCHANGED metricsData
  /\ RunUnchanged

\* One exec.exec of commitResults.  A failure of `git commit` or `git push` is
\* caught by the inner try, a failure of the commands before by the outer
\* one; either way commitResults returns and processOutputs resolves.
CommitResultsStep ==
  /\ \E k \in 1..Len(GitSequence) :
       /\ pc = GitSequence[k]
       /\ \E outcome \in {"ok", "failed"} :
            /\ clientCalls' = clientCalls \o <<Call(GitSequence[k], <<outcome>>)>>
            /\ IF outcome = "ok" /\ k < Len(GitSequence)
               THEN pc' = GitSequence[k + 1] /\ UNCHANGED result
               ELSE pc' = "done" /\ result' = Some("resolved")
  /\ UNCHANGED metricsData
  /\ RunUnchanged

NextRun ==
  \/ ReadInputs
  \/ CollectDora
  \/ CollectDevEx
  \/ WriteMetricsFile
  \/ SetActionOutputs
  \/ CreateMarkdownSummary
  \/ CommitResultsStep

SpecRun == InitRun /\ [][NextRun]_vars

\* ===================================================================== claims
Contains(error, text) == \E i \in 1..Len(error) : error[i] = text

\* determineDataSource has just ended: it returned, or it threw and
\* collectMetrics caught that.
AfterSource == pc = "checkLatest" \/ (pc = "done" /\ dataSource = Null)

\* collectMetrics returned the metrics object.
Succeeded == pc = "done" /\ Get(result).error = Null

\* ---- C1 (Spec).  determineDataSource returns source 'release' whenever
\* listReleases returned at least one release, with latest taken from
\* releases[0] and previous from releases[1] (null without a second release);
\* it asks listTags only when the release list was empty; with no release and
\* at least one tag it returns source 'tag', and the latest.tag reported then
\* is the name the first tag resolved to.
C1_ReleasesPreferred ==
  /\ (pc = "checkLatest" /\ ~seen.releases.threw /\ seen.releases.count >= 1) =>
       /\ dataSource = Some("release")
       /\ Get(latestDeployment).tag = Some(seen.releases.value[1].tag_name)
       /\ Get(latestDeployment).created_at = Some(seen.releases.value[1].created_at)
       /\ IF seen.releases.count >= 2
          THEN /\ previousDeployment # Null
               /\ Get(previousDeployment).tag = Some(seen.releases.value[2].tag_name)
               /\ Get(previousDeployment).created_at =
                    Some(seen.releases.value[2].created_at)
          ELSE previousDeployment = Null
  /\ (AfterSource /\ Asks(clientCalls, "listTags")) =>
       ~seen.releases.threw /\ seen.releases.count = 0
  /\ (pc = "checkLatest" /\ ~seen.releases.threw /\ seen.releases.count = 0
        /\ seen.tags.count >= 1) =>
       /\ dataSource = Some("tag")
       /\ latestDeployment # Null =>
            Get(latestDeployment).name = Some(seen.tags.value[1].name)
  /\ (Succeeded /\ Get(result).source = Some("tag")) =>
       Get(Get(result).latest).tag = Some(seen.tags.value[1].name)

C1_Witness ==
  /\ pc = "checkLatest"
  /\ seen.releases.count >= 2
  /\ dataSource = Some("release")
  /\ previousDeployment # Null

\* ---- C2 (Spec).  When listReleases and listTags both return an empty list,
\* collectMetrics ends with an error that contains 'No releases or tags
\* found', without metrics, and resolveTag, compareCommits and getCommit are
\* never called.
BothEmpty ==
  /\ pc # "determineDataSource"
  /\ ~seen.releases.threw /\ seen.releases.count = 0
  /\ ~seen.tags.threw /\ seen.tags.count = 0

C2_NoDeployments ==
  BothEmpty =>
    /\ pc = "done"
    /\ Get(result).error # Null
    /\ Contains(Get(Get(result).error), "No releases or tags found")
    /\ Get(result).metrics = Null
    /\ ~Asks(clientCalls, "resolveTag")
    /\ ~Asks(clientCalls, "compareCommits")
    /\ ~Asks(clientCalls, "getCommit")

C2_Witness == BothEmpty /\ pc = "done" /\ Asks(clientCalls, "listTags")

\* ---- C3 (Spec).
\* As claimed: if resolveTag gave null or an object without sha or without
\* created_at for the latest deployment, on the release path or the tag path,
\* collectMetrics returns an error and neither calculator runs.
HeadIncomplete == ~seen.head.object \/ ~seen.head.sha \/ ~seen.head.created_at

Rejected ==
  /\ pc \in {"checkLatest", "done"}
  /\ pc = "done" => Get(result).error # Null
  /\ frequency = NoFrequency
  /\ metricsData = NoMetricsData
  /\ ~Asks(clientCalls, "compareCommits")
  /\ ~Asks(clientCalls, "getCommit")

C3_AsClaimed ==
  (pc # "determineDataSource" /\ dataSource # Null /\ HeadIncomplete) => Rejected

\* C3, amended: the latest deployment is unusable when it has no sha or no
\* created_at.  On the release path created_at is the release's own, so only
\* a resolveTag answer without sha (or null) makes it unusable; on the tag
\* path a null answer or an answer without sha or without created_at does.
\* Then collectMetrics returns an error, computes neither deploy frequency
\* nor cycle time, and calls neither compareCommits nor getCommit.
LatestUnusable ==
  IF dataSource = Some("release") THEN ~seen.head.sha ELSE HeadIncomplete

C3_UnresolvedLatestRejected ==
  (pc # "determineDataSource" /\ dataSource # Null /\ LatestUnusable) => Rejected

C3_Witness ==
  /\ pc = "done"
  /\ dataSource = Some("tag")
  /\ seen.head.object /\ seen.head.sha /\ ~seen.head.created_at
  /\ Get(result).error =
       Some(<<"Could not resolve latest release/tag SHA or created_at">>)

\* ---- C4 (Spec).  When a previous deployment exists but its tag resolved to
\* no sha, the cycle time calculation does not produce numeric figures from a
\* substitute commit set.
SecondListed ==
  \/ dataSource = Some("release") /\ seen.releases.count >= 2
  \/ dataSource = Some("tag") /\ seen.tags.count >= 2

C4_PreviousWithoutShaRejected ==
  (/\ pc = "done"
   /\ SecondListed
   /\ ~Truthy(Field(previousDeployment, "sha"))
   /\ metricsData.cycle_time # Null) =>
     /\ Get(metricsData.cycle_time).avg_hours = Null
     /\ Get(metricsData.cycle_time).oldest_hours = Null
     /\ Get(metricsData.cycle_time).newest_hours = Null

\* ---- C5 (SpecFrequency).  Whatever way calculateDeployFrequency ends
\* (releases, tags, tags whose timestamps did not resolve, an exception of
\* the client), a deploy count below 2 comes with deploysPerWeek null.
C5_FewDeploymentsNoRate ==
  (pc = "returned" /\ Get(frequency).deployCount < 2) =>
    Get(frequency).deploysPerWeek = Null

C5_Witness ==
  /\ pc = "returned"
  /\ asked.releases.threw
  /\ Get(frequency).deployCount = 0
  /\ Get(frequency).deploysPerWeek = Null

\* ---- C6 (SpecFrequency).  With two or more deployments deploysPerWeek is
\* the deploy count over the weeks between the first and the last entry of
\* the whole list (hours / 168), to the nearest hundredth, and it is null
\* when that span is zero or negative (or, for tags, when a timestamp did not
\* resolve); it is therefore always a finite number or null.
RateIs(rate, n, spanHours) ==
  IF spanHours > 0
  THEN /\ rate # Null
       /\ 2 * (Get(rate) * spanHours - 16800 * n) <= spanHours
       /\ 2 * (16800 * n - Get(rate) * spanHours) <= spanHours
  ELSE rate = Null

C6_DeploysPerWeek ==
  (pc = "returned" /\ Get(frequency).deployCount >= 2) =>
    LET n == Get(frequency).deployCount
        rate == Get(frequency).deploysPerWeek
        rs == asked.releases.value
        ts == asked.tags.value
        first == Field(asked.newest.value, "created_at")
        last == Field(asked.oldest.value, "created_at")
    IN IF Len(rs) >= 1
       THEN n = Len(rs) /\ RateIs(rate, n, rs[1].created_at - rs[n].created_at)
       ELSE /\ n = Len(ts)
            /\ IF first # Null /\ last # Null
               THEN RateIs(rate, n, Get(first) - Get(last))
               ELSE rate = Null

\* three releases over a day and a half: 3 / (1.5 / 7) = 14 a week
C6_Witness ==
  /\ pc = "returned"
  /\ Get(frequency).deployCount = 3
  /\ Len(asked.releases.value) = 3
  /\ asked.releases.value[1].created_at - asked.releases.value[3].created_at = 36
  /\ Get(frequency).deploysPerWeek = Some(1400)

\* ---- C7 (Spec).  The deploy_frequency_days that collectMetrics reports is
\* the number of days between the latest and the previous deployment (1 for
\* two releases a day apart), and null when there is no previous deployment.
C7_DaysBetweenLatestAndPrevious ==
  (Succeeded /\ options.enabledMetrics.deploymentFrequency) =>
    LET reported == Get(Get(result).metrics).deploy_frequency_days
        before == Field(previousDeployment, "created_at")
    IN IF before = Null THEN reported = Null
       ELSE /\ reported # Null
            /\ Get(reported) * 24 =
                 100 * (Get(Get(latestDeployment).created_at) - Get(before))

\* ---- C8 (SpecCycleTime).  calculateCycleTime picks its commits by
\* previous.sha: with it, compareCommits(previous.sha, latest.sha) is the one
\* call and its commits are the set; without it, getCommit(latest.sha) is the
\* one call and the set is that commit, or empty when the answer is null.
C8_CommitSetByPreviousSha ==
  pc = "returned" =>
    IF Truthy(Field(previousDeployment, "sha"))
    THEN /\ clientCalls =
              <<Call("compareCommits",
                     <<Get(previousDeployment).sha, Get(latestDeployment).sha>>)>>
         /\ ~cycle.threw => cycle.allCommits = asked.comparison.value
    ELSE /\ clientCalls = <<Call("getCommit", <<Get(latestDeployment).sha>>)>>
         /\ ~cycle.threw =>
              /\ cycle.allCommits =
                   IF asked.single.value = Null THEN <<>>
                   ELSE <<Get(asked.single.value)>>
              /\ Get(cycle.value).commit_count <= 1

C8_Witness ==
  /\ pc = "returned"
  /\ previousDeployment # Null
  /\ ~Truthy(Get(previousDeployment).sha)
  /\ Asks(clientCalls, "getCommit")
  /\ Len(cycle.allCommits) = 1

\* ---- C9 (SpecCycleTime).  In every result of calculateCycleTime a
\* commit_count of 0 comes with avg_hours, oldest_hours, newest_hours and
\* both commit shas null, and a positive commit_count comes with the three
\* hour fields set.
C9_CountAndFigures ==
  (pc = "returned" /\ ~cycle.threw) =>
    LET r == Get(cycle.value) IN
    IF r.commit_count = 0
    THEN /\ r.avg_hours = Null /\ r.oldest_hours = Null /\ r.newest_hours = Null
         /\ r.oldest_commit_sha = Null /\ r.newest_commit_sha = Null
    ELSE r.avg_hours # Null /\ r.oldest_hours # Null /\ r.newest_hours # Null

\* only merge commits, merges excluded: the figures are still all there
C9_Witness ==
  /\ pc = "returned" /\ ~cycle.threw
  /\ ~options.includeMergeCommits
  /\ Get(cycle.value).commit_count = 2
  /\ \A i \in 1..Len(cycle.allCommits) : cycle.allCommits[i].parents > 1
  /\ Get(cycle.value).newest_hours # Null

\* ---- C10 (SpecCycleTime).  When merge commits are excluded and the commit
\* set has a dated commit that is not a merge, newest_commit_sha names a
\* commit with at most one parent and newest_hours is the smallest age among
\* the dated non-merge commits.
DatedNonMerges ==
  {i \in 1..Len(cycle.allCommits) :
     /\ Truthy(CommitDate(cycle.allCommits[i]))
     /\ cycle.allCommits[i].parents <= 1}

AgeAt(i) ==
  hoursBetween(Get(Get(latestDeployment).created_at),
               Get(CommitDate(cycle.allCommits[i])))

C10_NewestExcludesMerges ==
  (/\ pc = "returned" /\ ~cycle.threw
   /\ ~options.includeMergeCommits
   /\ DatedNonMerges # {}) =>
    LET r == Get(cycle.value) IN
    /\ r.newest_excludes_merges
    /\ \E i \in DatedNonMerges :
         /\ r.newest_commit_sha = Some(cycle.allCommits[i].sha)
         /\ r.newest_hours = Some(100 * AgeAt(i))
         /\ \A j \in DatedNonMerges : AgeAt(i) <= AgeAt(j)

\* a merge commit that is newer than every commit that is not a merge
C10_Witness ==
  /\ pc = "returned" /\ ~cycle.threw
  /\ ~options.includeMergeCommits
  /\ DatedNonMerges # {}
  /\ \E m \in 1..Len(cycle.allCommits) :
       /\ cycle.allCommits[m].parents > 1
       /\ Truthy(CommitDate(cycle.allCommits[m]))
       /\ \A j \in DatedNonMerges : AgeAt(m) < AgeAt(j)

\* ---- C11 (SpecCycleTime).  For the same latest deployment and the same
\* commits, calculateCycleTime with includeMergeCommits true and with it
\* false gives the same commit_count, avg_hours, oldest_hours and
\* oldest_commit_sha.
OtherFlag ==
  CycleTimeOf(Get(Get(latestDeployment).created_at), cycle.allCommits,
              ~options.includeMergeCommits)

C11_StatsIgnoreMergeFlag ==
  (pc = "returned" /\ ~cycle.threw) =>
    /\ Get(cycle.value).commit_count = OtherFlag.commit_count
    /\ Get(cycle.value).avg_hours = OtherFlag.avg_hours
    /\ Get(cycle.value).oldest_hours = OtherFlag.oldest_hours
    /\ Get(cycle.value).oldest_commit_sha = OtherFlag.oldest_commit_sha

\* the flag changes the newest commit, and the oldest commit is a merge
C11_Witness ==
  /\ pc = "returned" /\ ~cycle.threw
  /\ Get(cycle.value).commit_count = 2
  /\ Get(cycle.value).newest_commit_sha # OtherFlag.newest_commit_sha
  /\ Get(cycle.value).newest_hours # OtherFlag.newest_hours
  /\ Get(cycle.value).oldest_hours # Get(cycle.value).newest_hours

\* ---- C12 (SpecCycleTime).  With merge commits excluded and every dated
\* commit a merge, newest_hours and newest_commit_sha are those of the
\* smallest age over all dated commits, which is what includeMergeCommits
\* true reports; they are not null.
DatedCommits ==
  {i \in 1..Len(cycle.allCommits) : Truthy(CommitDate(cycle.allCommits[i]))}

C12_AllMergesFallBack ==
  (/\ pc = "returned" /\ ~cycle.threw
   /\ ~options.includeMergeCommits
   /\ DatedCommits # {}
   /\ DatedNonMerges = {}) =>
    /\ Get(cycle.value).newest_hours # Null
    /\ Get(cycle.value).newest_commit_sha # Null
    /\ Get(cycle.value).newest_hours = OtherFlag.newest_hours
    /\ Get(cycle.value).newest_commit_sha = OtherFlag.newest_commit_sha
    /\ \E i \in DatedCommits :
         /\ Get(cycle.value).newest_hours = Some(100 * AgeAt(i))
         /\ \A j \in DatedCommits : AgeAt(i) <= AgeAt(j)

\* two merge commits of different ages
C12_Witness ==
  /\ pc = "returned" /\ ~cycle.threw
  /\ ~options.includeMergeCommits
  /\ DatedNonMerges = {}
  /\ \E i, j \in DatedCommits : AgeAt(i) < AgeAt(j)
  /\ Get(cycle.value).newest_hours # Get(cycle.value).oldest_hours

\* ---- C13 (SpecCycleTime).  Commits with neither a committer date nor an
\* author date count for nothing: commit_count and the figures are those of
\* the commit set without them, and they never make the call fail; a commit's
\* date is its committer date when it has one, its author date otherwise.
HasDate(c) == c.committer # Null \/ c.author # Null

DateUsed(c) == IF c.committer # Null THEN Get(c.committer) ELSE Get(c.author)

WithDates == {i \in 1..Len(cycle.allCommits) : HasDate(cycle.allCommits[i])}

AnswerThrew ==
  IF Asks(clientCalls, "compareCommits") THEN asked.comparison.threw
  ELSE asked.single.threw

C13_UndatedCommitsLeftOut ==
  pc = "returned" =>
    /\ cycle.threw = AnswerThrew
    /\ ~cycle.threw =>
         /\ Get(cycle.value).commit_count = Cardinality(WithDates)
         /\ Get(cycle.value) =
              CycleTimeOf(Get(Get(latestDeployment).created_at),
                          SelectSeq(cycle.allCommits, HasDate),
                          options.includeMergeCommits)
         /\ WithDates # {} =>
              \E i \in WithDates :
                /\ Get(cycle.value).oldest_hours =
                     Some(100 * (Get(Get(latestDeployment).created_at)
                                   - DateUsed(cycle.allCommits[i])))
                /\ \A j \in WithDates :
                     DateUsed(cycle.allCommits[j]) >= DateUsed(cycle.allCommits[i])

\* an undated commit next to one whose committer and author dates differ
C13_Witness ==
  /\ pc = "returned" /\ ~cycle.threw
  /\ Len(cycle.allCommits) = 2
  /\ Get(cycle.value).commit_count = 1
  /\ \E i \in WithDates :
       /\ cycle.allCommits[i].committer # Null
       /\ cycle.allCommits[i].author # Null
       /\ cycle.allCommits[i].committer # cycle.allCommits[i].author

\* ------------------------------------------------------------- PR maturity
\* calculatePRMaturity returned; what it was given and what it gave back.
MaturityReturned == pc = "returned" /\ result # Null

DetailsGiven == ~asked.details.threw /\ asked.details.value # Null

CommitsGiven ==
  /\ DetailsGiven
  /\ ~asked.commits.threw
  /\ asked.commits.value # Null
  /\ Len(Get(asked.commits.value)) >= 1

GivenCommits == Get(asked.commits.value)

Reason == Get(result).details.reason

IsErrorResult ==
  /\ Get(result).maturity_ratio = Null
  /\ Get(result).maturity_percentage = Null
  /\ Get(result).details.error # Null

SecondsAfterCreation(commit) == Get(commit.date) - PrCreatedAt

\* ---- C14 (SpecMaturity).
\* As claimed: for every PR with exactly one commit and its details
\* available, calculatePRMaturity returns 100% with reason 'Single commit
\* PR', whatever the commit's date and the files, and does not call
\* compareCommitsDiff.
OneCommit == MaturityReturned /\ CommitsGiven /\ Len(GivenCommits) = 1

C14_AsClaimed ==
  OneCommit =>
    /\ Get(result).maturity_percentage = Some(100)
    /\ Reason = Some("Single commit PR")
    /\ ~Asks(clientCalls, "compareCommitsDiff")

\* C14, amended: with exactly one commit and the PR details available,
\* compareCommitsDiff is never called; the result is 100% with reason 'Single
\* commit PR', whatever the date of the commit and the files (a null file
\* list counts as empty), unless getPullRequestFiles throws, and then it is
\* the error result with null maturity.
C14_SingleCommitIsMature ==
  OneCommit =>
    /\ ~Asks(clientCalls, "compareCommitsDiff")
    /\ IF asked.files.threw THEN IsErrorResult
       ELSE /\ Get(result).maturity_percentage = Some(100)
            /\ Get(result).maturity_ratio = Some(1000)
            /\ Reason = Some("Single commit PR")

\* one commit made after the grace period, with files that are counted
C14_Witness ==
  /\ OneCommit
  /\ GivenCommits[1].date = Some(PrCreatedAt + 301)
  /\ Get(result).maturity_percentage = Some(100)
  /\ Get(result).details.total_changes = Some(115)

\* ---- C15 (SpecMaturity).
\* As claimed: with two or more commits, each made at or before the creation
\* of the PR or no more than 5 minutes after it, the result is 100% with
\* reason 'All commits within grace period or pre-existing',
\* changes_after_publication 0 and stable_changes equal to total_changes; a
\* commit made more than 5 minutes after the creation keeps the call out of
\* this branch.
NoCommitAfterGrace ==
  \A i \in 1..Len(GivenCommits) :
    /\ GivenCommits[i].date # Null
    /\ SecondsAfterCreation(GivenCommits[i]) <= 300

SeveralInGrace ==
  MaturityReturned /\ CommitsGiven /\ Len(GivenCommits) >= 2 /\ NoCommitAfterGrace

InGraceBranch ==
  /\ Get(result).maturity_percentage = Some(100)
  /\ Reason = Some("All commits within grace period or pre-existing")
  /\ Get(result).details.changes_after_publication = Some(0)
  /\ Get(result).details.stable_changes = Get(result).details.total_changes
  /\ Get(result).details.total_changes # Null

LateCommitKeepsOut ==
  (MaturityReturned
     /\ Reason = Some("All commits within grace period or pre-existing")) =>
    \A i \in 1..Len(GivenCommits) :
      GivenCommits[i].date # Null => SecondsAfterCreation(GivenCommits[i]) <= 300

C15_AsClaimed == (SeveralInGrace => InGraceBranch) /\ LateCommitKeepsOut

\* C15, amended: the same, unless getPullRequestFiles throws, and then the
\* result is the error result with null maturity.
C15_AllWithinGrace ==
  /\ SeveralInGrace => IF asked.files.threw THEN IsErrorResult ELSE InGraceBranch
  /\ LateCommitKeepsOut

\* a commit made long before the PR and one made exactly 5 minutes after it
C15_Witness ==
  /\ SeveralInGrace
  /\ InGraceBranch
  /\ \E i, j \in 1..Len(GivenCommits) :
       /\ SecondsAfterCreation(GivenCommits[i]) = 300
       /\ SecondsAfterCreation(GivenCommits[j]) < 0 - 300

\* ---- C16 (SpecMaturity).  Whenever calculatePRMaturity returns through the
\* general case (reason 'Calculated based on meaningful commits after
\* publication'), stable_changes + changes_after_publication equals
\* total_changes and stable_changes is not negative.
GeneralCase ==
  /\ MaturityReturned
  /\ Reason = Some("Calculated based on meaningful commits after publication")

C16_StablePlusAfterIsTotal ==
  GeneralCase =>
    /\ Get(Get(result).details.stable_changes) >= 0
    /\ Get(Get(result).details.stable_changes)
         + Get(Get(result).details.changes_after_publication)
       = Get(Get(result).details.total_changes)

\* ---- C17 (SpecMaturity).  In the general case maturity_percentage is
\* 100 * max(0, total_changes - changes_after_publication) / total_changes
\* rounded to the nearest integer (a half going up) when total_changes is
\* positive, and 100 when it is 0; in every result a maturity_percentage that
\* is not null lies in 0..100 and a maturity_ratio that is not null lies in
\* 0..1 (kept in thousandths).
ExpectedStable ==
  IF Get(Get(result).details.total_changes)
       > Get(Get(result).details.changes_after_publication)
  THEN Get(Get(result).details.total_changes)
         - Get(Get(result).details.changes_after_publication)
  ELSE 0

IsNearest(p, num, den) == 2 * (p * den - num) <= den /\ 2 * (num - p * den) < den

FirstSignificantPosition ==
  CHOOSE k \in 1..Len(GivenCommits) :
    /\ GivenCommits[k].date # Null /\ SecondsAfterCreation(GivenCommits[k]) > 300
    /\ \A j \in 1..(k - 1) :
         GivenCommits[j].date = Null \/ SecondsAfterCreation(GivenCommits[j]) <= 300

ExpectedBaseline ==
  IF FirstSignificantPosition = 1 THEN GivenCommits[1]
  ELSE GivenCommits[FirstSignificantPosition - 1]

C18_DiffFromBaselineToLast ==
  /\ (pc = "returned" /\ Asks(clientCalls, "compareCommitsDiff")) =>
       /\ CountCalls(clientCalls, "compareCommitsDiff") = 1
       /\ clientCalls[Len(clientCalls)] =
            Call("compareCommitsDiff",
                 <<ExpectedBaseline.sha, GivenCommits[Len(GivenCommits)].sha>>)
  /\ GeneralCase =>
       /\ Asks(clientCalls, "compareCommitsDiff")
       /\ Get(result).details.baseline_commit_sha = Some(ExpectedBaseline.sha)
       /\ Get(result).details.last_commit_sha =
            Some(GivenCommits[Len(GivenCommits)].sha)

\* the first significant commit is the third of the list, not the last
C18_Witness ==
  /\ GeneralCase
  /\ FirstSignificantPosition = 3
  /\ Get(result).details.baseline_commit_sha = Some("c2")
  /\ Get(result).details.first_significant_commit_sha = Some("c3")

\* ---- C19 (SpecMaturity).  When the diff from the baseline to the last
\* commit cannot be had (compareCommitsDiff returns null or throws),
\* calculatePRMaturity returns the result with maturity_ratio null,
\* maturity_percentage null and an error in details.
DiffFailed ==
  /\ pc = "returned"
  /\ Asks(clientCalls, "compareCommitsDiff")
  /\ asked.diff.threw \/ asked.diff.value = Null

C19_NoDiffNoRatio == DiffFailed => (result # Null /\ IsErrorResult)

C19_Witness ==
  /\ DiffFailed
  /\ asked.diff.threw
  /\ Get(result).details.error = Some("API error")

\* ---- C20 (SpecMaturity).
\* The guards, read off the answers given, in their order of priority.
FetchFailed ==
  \/ asked.details.threw \/ asked.details.value = Null
  \/ asked.commits.threw \/ asked.commits.value = Null
  \/ Len(Get(asked.commits.value)) = 0

SomeCommitAfterGrace ==
  \E i \in 1..Len(GivenCommits) :
    GivenCommits[i].date # Null /\ SecondsAfterCreation(GivenCommits[i]) > 300

FirstBranch ==
  IF FetchFailed THEN "fetch failure"
  ELSE IF Len(GivenCommits) = 1 THEN "Single commit PR"
  ELSE IF NoCommitAfterGrace THEN "All commits within grace period or pre-existing"
  ELSE IF ~SomeCommitAfterGrace THEN "No significant commits after PR publication"
  ELSE "Calculated based on meaningful commits after publication"

\* the result is the one of the branch
OutcomeOf(branch) ==
  IF branch = "fetch failure" THEN IsErrorResult
  ELSE IF branch = "Calculated based on meaningful commits after publication"
    THEN IF DiffFailed THEN IsErrorResult
         ELSE Reason = Some(branch) /\ Get(result).maturity_percentage # Null
  ELSE /\ Reason = Some(branch)
       /\ Get(result).maturity_percentage = Some(100)
       /\ ~Asks(clientCalls, "compareCommitsDiff")

\* As claimed: the branches are tried in the order fetch failure, single
\* commit, all within grace, no significant commits, general case, and the
\* result is that of the first branch whose guard holds.
C20_AsClaimed == MaturityReturned => OutcomeOf(FirstBranch)

\* C20, amended: the same, unless getPullRequestFiles throws in a branch
\* after the fetch failure, and then the result is the error result.
C20_FirstBranchWins ==
  MaturityReturned =>
    /\ IF ~FetchFailed /\ asked.files.threw THEN IsErrorResult
       ELSE OutcomeOf(FirstBranch)
    /\ (asked.details.threw \/ asked.details.value = Null) =>
         ~Asks(clientCalls, "getPullRequestCommits")
    /\ FetchFailed => ~Asks(clientCalls, "getPullRequestFiles")

\* two commits, none after the grace period, one of them without a valid
\* date: neither the grace branch nor the general case
C20_Witness ==
  /\ MaturityReturned
  /\ ~FetchFailed
  /\ Len(GivenCommits) = 2
  /\ Reason = Some("No significant commits after PR publication")

\* ---- C21 (SpecMaturity).  When the list of changed files cannot be had
\* (getPullRequestFiles returns null), the calculator returns maturity_ratio
\* null and maturity_percentage null with an error, and no number.
FilesMissing ==
  /\ MaturityReturned
  /\ Asks(clientCalls, "getPullRequestFiles")
  /\ ~asked.files.threw
  /\ asked.files.value = Null

C21_NoFilesNoMaturity == FilesMissing => IsErrorResult

\* ---- C23 (SpecMaturity).  The calls of a run are getPullRequest,
\* getPullRequestCommits, getPullRequestFiles and compareCommitsDiff in that
\* order, each at most once and none without the ones before it;
\* compareCommitsDiff is asked only in the general case, for the baseline
\* already chosen, and never in a run that fails to fetch or that ends in one
\* of the 100% branches.
CallOrder ==
  <<"getPullRequest", "getPullRequestCommits", "getPullRequestFiles",
    "compareCommitsDiff">>

C23_CallsInOrder ==
  pc = "returned" =>
    /\ Len(clientCalls) \in 1..Len(CallOrder)
    /\ \A i \in 1..Len(clientCalls) : clientCalls[i].op = CallOrder[i]
    /\ Asks(clientCalls, "compareCommitsDiff") =>
         /\ FirstBranch = "Calculated based on meaningful commits after publication"
         /\ ~asked.files.threw
         /\ clientCalls[Len(clientCalls)].args[1] = ExpectedBaseline.sha
    /\ Get(result).maturity_percentage = Some(100)
         /\ Reason # Some("Calculated based on meaningful commits after publication")
       => ~Asks(clientCalls, "compareCommitsDiff")

\* a general case whose diff call comes fourth, after the file list
C23_Witness ==
  /\ GeneralCase
  /\ Len(clientCalls) = 4
  /\ clientCalls[3].op = "getPullRequestFiles"
  /\ clientCalls[4] = Call("compareCommitsDiff", <<"c1", "c3">>)

\* ---- C28 (SpecMaturity).  When every commit of the PR has a valid author
\* date and the all-within-grace branch does not fire, some commit is more than
\* 5 minutes after the creation of the PR: the result with reason 'No
\* significant commits after PR publication' is never returned.
AllDatesValid ==
  /\ MaturityReturned
  /\ CommitsGiven
  /\ \A i \in 1..Len(GivenCommits) : GivenCommits[i].date # Null

C28_NoSignificantBranchUnreachable ==
  AllDatesValid =>
    /\ Reason # Some("No significant commits after PR publication")
    /\ (Len(GivenCommits) >= 2 /\ ~NoCommitAfterGrace) => SomeCommitAfterGrace
    /\ (Len(GivenCommits) >= 2 /\ ~asked.files.threw
          /\ Reason # Some("All commits within grace period or pre-existing")) =>
         Asks(clientCalls, "compareCommitsDiff")

\* valid dates, one of them a second after the grace period
C28_Witness ==
  /\ AllDatesValid
  /\ Len(GivenCommits) = 2
  /\ GivenCommits[1].date = Some(PrCreatedAt - 600)
  /\ GivenCommits[2].date = Some(PrCreatedAt + 301)
  /\ GeneralCase

\* ---- C29 (SpecMaturity).
\* As claimed: in the general case the baseline commit is never a significant
\* commit (one made more than 5 minutes after the creation of the PR).
BaselineGiven ==
  CHOOSE c \in {GivenCommits[i] : i \in 1..Len(GivenCommits)} :
    Some(c.sha) = Get(result).details.baseline_commit_sha

IsSignificantCommit(c) == c.date # Null /\ SecondsAfterCreation(c) > 300

C29_AsClaimed == GeneralCase => ~IsSignificantCommit(BaselineGiven)

\* C29, amended: in the general case the baseline is not a significant commit
\* when the first significant commit is not the first commit of the list, and
\* every significant commit then comes after the baseline; when the first
\* commit of the list is significant, the baseline is that commit itself.
C29_BaselineBeforeSignificant ==
  GeneralCase =>
    IF IsSignificantCommit(GivenCommits[1])
    THEN BaselineGiven = GivenCommits[1]
    ELSE /\ ~IsSignificantCommit(BaselineGiven)
         /\ \E b \in 1..Len(GivenCommits) :
              /\ GivenCommits[b] = BaselineGiven
              /\ \A i \in 1..Len(GivenCommits) :
                   IsSignificantCommit(GivenCommits[i]) => i > b

\* the first commit of the list is significant, the second is not
C29_Witness ==
  /\ GeneralCase
  /\ IsSignificantCommit(GivenCommits[1])
  /\ ~IsSignificantCommit(GivenCommits[2])
  /\ BaselineGiven = GivenCommits[1]

\* ---- C26 (Spec).  In one run of collectMetrics the list that deploy_count
\* and the deploy frequency are taken from is of the same source as the
\* `source` reported and the latest and previous deployments, although
\* calculateDeployFrequency lists the releases and tags again and may be
\* answered differently.
C26_OneSourcePerRun ==
  (Succeeded /\ options.enabledMetrics.deploymentFrequency) =>
    /\ Get(metricsData.deploy_count) >= 1
    /\ dataSource = Some("release") => CountCalls(clientCalls, "listTags") = 0
    /\ dataSource = Some("tag") => CountCalls(clientCalls, "listTags") = 2

\* ---- C27 (SpecCycleTime).
\* As claimed: in every result of calculateCycleTime with commit_count > 0,
\* under either setting of includeMergeCommits, newest_hours <= avg_hours <=
\* oldest_hours.
HasFigures ==
  pc = "returned" /\ ~cycle.threw /\ Get(cycle.value).commit_count > 0

NewestHours == Get(Get(cycle.value).newest_hours)
AvgHours == Get(Get(cycle.value).avg_hours)
OldestHours == Get(Get(cycle.value).oldest_hours)

C27_AsClaimed == HasFigures => (NewestHours <= AvgHours /\ AvgHours <= OldestHours)

\* C27, amended: with commit_count > 0, avg_hours <= oldest_hours and
\* newest_hours <= oldest_hours under either setting; newest_hours <=
\* avg_hours when includeMergeCommits is true, or when no dated commit is a
\* merge, or when every dated commit is one.
MergesLeftOut ==
  /\ ~options.includeMergeCommits
  /\ DatedNonMerges # {}
  /\ DatedNonMerges # DatedCommits

C27_FiguresOrdered ==
  HasFigures =>
    /\ AvgHours <= OldestHours
    /\ NewestHours <= OldestHours
    /\ ~MergesLeftOut => NewestHours <= AvgHours

\* a merge commit newer than the only other commit: newest is above the average
C27_Witness ==
  /\ HasFigures
  /\ MergesLeftOut
  /\ NewestHours > AvgHours
  /\ NewestHours = OldestHours

\* ---- C22 (SpecRating).  The rating of PR maturity is 'Unknown' for null and
\* undefined, 'Elite' above 88, 'Good' from 81 to 88, 'Fair' from 75 to 80 and
\* 'Needs Focus' below 75, and getMaturityLevel names the same tier as
\* ratePRMaturity for every percentage.
Rated == pc = "returned"

IsNumber == options.kind = "number"

C22_TiersAgree ==
  Rated =>
    /\ ~IsNumber => result.rating = Some("Unknown")
    /\ (IsNumber /\ options.value > 88) => result.rating = Some("Elite")
    /\ (IsNumber /\ options.value \in 81..88) => result.rating = Some("Good")
    /\ (IsNumber /\ options.value \in 75..80) => result.rating = Some("Fair")
    /\ (IsNumber /\ options.value < 75) => result.rating = Some("Needs Focus")
    /\ result.level = result.rating

\* the upper end of 'Good' has been rated and described
C22_Witness ==
  /\ Rated
  /\ IsNumber
  /\ options.value = 88
  /\ result.rating = Some("Good")
  /\ result.level = Some("Good")

\* ---- C30 (SpecAggregate).  In the result of calculateAggregateStats, for
\* each of pickup_time, approve_time and merge_time, average_hours and rating
\* are null exactly when sample_size is 0, and with sample_size > 0 the
\* average is the mean, to the hundredth, of the non-null values.
Aggregated == pc = "returned"

TimeFields ==
  {<<"pickup_time", "pickup_time_hours">>, <<"approve_time", "approve_time_hours">>,
   <<"merge_time", "merge_time_hours">>}

GivenTimes(field) ==
  {i \in 1..Len(options) : options[i][field] # Null}

RECURSIVE TotalOf(_, _)
TotalOf(idx, field) ==
  IF idx = {} THEN 0
  ELSE LET i == CHOOSE j \in idx : TRUE
       IN Get(options[i][field]) + TotalOf(idx \ {i}, field)

C30_NullIffNoSample ==
  Aggregated =>
    \A f \in TimeFields :
      LET stat == Get(result)[f[1]]
          given == GivenTimes(f[2])
      IN /\ stat.sample_size = Cardinality(given)
         /\ (stat.average_hours = Null) <=> (stat.sample_size = 0)
         /\ (stat.rating = Null) <=> (stat.sample_size = 0)
         /\ stat.sample_size > 0 =>
              stat.average_hours =
                Some(MathRound(TotalOf(given, f[2]), Cardinality(given)))

\* ---- C24 (SpecRun).
\* As claimed: run() calls setFailed when none of deployment-frequency,
\* lead-time, pr-size and pr-maturity is enabled, and then constructs and
\* invokes no collector and processes no outputs; otherwise the DORA collector
\* runs exactly when deployment-frequency or lead-time is enabled, the DevEx
\* collector exactly when pr-size or pr-maturity is, and an error result of
\* the DORA collector does not keep the DevEx collector from running.
Finished == pc = "done"

SwitchedOn(input) == input = "true"

NoneSwitchedOn ==
  /\ ~SwitchedOn(options.deploymentFrequency)
  /\ ~SwitchedOn(options.leadTime)
  /\ ~SwitchedOn(options.prSize)
  /\ ~SwitchedOn(options.prMaturity)

DoraSwitchedOn ==
  SwitchedOn(options.deploymentFrequency) \/ SwitchedOn(options.leadTime)

DevExSwitchedOn ==
  SwitchedOn(options.prSize) \/ SwitchedOn(options.prMaturity)

SetFailedCalled == Asks(clientCalls, "setFailed")

DoraRan ==
  /\ Asks(clientCalls, "new MetricsCollector")
  /\ Asks(clientCalls, "MetricsCollector.collectMetrics")

DevExRan ==
  /\ Asks(clientCalls, "new DevExMetricsCollector")
  /\ Asks(clientCalls, "DevExMetricsCollector.collectMetrics")

NoCollector ==
  \A i \in 1..Len(clientCalls) :
    clientCalls[i].op \notin
      {"new MetricsCollector", "MetricsCollector.collectMetrics",
       "new DevExMetricsCollector", "DevExMetricsCollector.collectMetrics"}

NoOutputs ==
  /\ ~Asks(clientCalls, "writeJsonFile")
  /\ ~Asks(clientCalls, "setOutput")
  /\ ~Asks(clientCalls, "summary.write")

DoraErrored == DoraRan /\ metricsData.error # Null

StoppedAtOnce == SetFailedCalled /\ NoCollector /\ NoOutputs

CollectorsAsSwitched ==
  /\ DoraRan <=> DoraSwitchedOn
  /\ DevExRan <=> DevExSwitchedOn
  /\ (DoraErrored /\ DevExSwitchedOn) => DevExRan

C24_AsClaimed ==
  Finished => IF NoneSwitchedOn THEN StoppedAtOnce ELSE CollectorsAsSwitched

\* C24, amended: run() calls setFailed, with no collector constructed or
\* invoked and no outputs processed, when none of the four metrics is enabled
\* or when an input is rejected by its validation; when every input is
\* accepted and a metric is enabled, the collectors run as claimed.
C24_CollectorsFollowSwitches ==
  Finished =>
    IF NoneSwitchedOn \/ ~InputsAccepted(options)
    THEN StoppedAtOnce
    ELSE CollectorsAsSwitched

\* the DORA collector answered with an error result and the DevEx one ran
C24_Witness ==
  /\ Finished
  /\ InputsAccepted(options)
  /\ DoraErrored
  /\ DevExSwitchedOn
  /\ DevExRan

\* ---- C25 (SpecRun).  processOutputs writes the file, sets the outputs,
\* creates the summary and commits, in that order; the commit step runs only
\* if commitResults is true and the event is not 'pull_request'; `git push` is
\* executed only after `git commit` succeeded; and a failure of commit or push
\* never makes processOutputs fail.
GitCommands ==
  {"git config user.name", "git config user.email", "git add", "git commit",
   "git push"}

ManagerOutputs ==
  {"metrics-json", "metrics-file-path", "deployment-frequency", "lead-time-avg",
   "lead-time-oldest", "lead-time-newest", "commit-count"}

\* the step of processOutputs a call belongs to, 0 for a call of run() itself
StepOf(call) ==
  IF call.op = "writeJsonFile" THEN 1
  ELSE IF call.op = "setOutput" /\ call.args[1] \in ManagerOutputs THEN 2
  ELSE IF call.op = "summary.write" THEN 3
  ELSE IF call.op \in GitCommands THEN 4
  ELSE 0

StepsInOrder ==
  \A j \in 1..Len(clientCalls) :
    LET step == StepOf(clientCalls[j])
    IN /\ step > 0 => \A i \in 1..(j - 1) : StepOf(clientCalls[i]) <= step
       /\ step > 1 => \E i \in 1..(j - 1) : StepOf(clientCalls[i]) = step - 1

CommitRequested ==
  /\ options.commitResults \in {"", "true"}
  /\ options.eventName # "pull_request"

CommitStepRan == \E i \in 1..Len(clientCalls) : clientCalls[i].op \in GitCommands

PushAfterCommit ==
  \A i \in 1..Len(clientCalls) :
    clientCalls[i].op = "git push" =>
      i > 1 /\ clientCalls[i - 1] = Call("git commit", <<"ok">>)

CommitOrPushFailed ==
  \E i \in 1..Len(clientCalls) :
    /\ clientCalls[i].op \in {"git commit", "git push"}
    /\ clientCalls[i].args = <<"failed">>

C25_OutputSteps ==
  /\ StepsInOrder
  /\ CommitStepRan => CommitRequested
  /\ PushAfterCommit
  /\ CommitOrPushFailed =>
       /\ result # Some("rejected")
       /\ ~SetFailedCalled
       /\ Finished => result = Some("resolved")

\* the push failed after a commit that succeeded, and processOutputs resolved
C25_Witness ==
  /\ Finished
  /\ Asks(clientCalls, "git push")
  /\ CommitOrPushFailed
  /\ result = Some("resolved")

====
